---------------------------- MODULE Spec2Model ----------------------------
(***************************************************************************)
(* suiup: the installed-binary registry, the default-version store and the *)
(* promotion of an installed artifact into the default-bin directory.      *)
(*                                                                         *)
(* One action is one invocation of the command-line tool on a Unix host    *)
(* (the cfg(not(windows)) branches): main() runs paths::initialize() and   *)
(* then the command.  Strings whose characters matter (binary names,       *)
(* versions, file names) are sequences of byte codes, so that format!,     *)
(* starts_with and String::cmp are computed as Rust computes them.         *)
(***************************************************************************)
EXTENDS Naturals, Sequences, FiniteSets

(***************************************************************************)
(* Bounds of the model.                                                    *)
(***************************************************************************)
\* number of command invocations (and manual file deletions) in one run
MaxOps == 3

(***************************************************************************)
(* String literals of the program, as byte sequences.                      *)
(***************************************************************************)
S_sui == <<115, 117, 105>>
S_mvr == <<109, 118, 114>>
S_dash == <<45>>
S_v == <<118>>
S_debug == <<100, 101, 98, 117, 103>>
S_nightly == <<110, 105, 103, 104, 116, 108, 121>>
S_empty == <<>>
\* "1.9.0" and "1.10.0": the two releases the release fetcher can supply
S_1_9_0 == <<49, 46, 57, 46, 48>>
S_1_10_0 == <<49, 46, 49, 48, 46, 48>>

\* format!("{}-{}", a, b)
Fmt2(a, b) == a \o S_dash \o b
\* format!("{}-debug", a)
FmtDebug(a) == a \o S_dash \o S_debug
\* format!("{}-debug-{}", a, b)
FmtDebug2(a, b) == a \o S_dash \o S_debug \o S_dash \o b

\* str::starts_with
starts_with(s, p) == Len(s) >= Len(p) /\ SubSeq(s, 1, Len(p)) = p

\* String::cmp: bytewise lexicographic order, a proper prefix is smaller.
RECURSIVE StrLess(_, _)
StrLess(a, b) ==
    IF b = <<>> THEN FALSE
    ELSE IF a = <<>> THEN TRUE
    ELSE IF Head(a) # Head(b) THEN Head(a) < Head(b)
    ELSE StrLess(Tail(a), Tail(b))

StrLeq(a, b) == a = b \/ StrLess(a, b)

ensure_version_prefix(version) ==
    IF starts_with(version, S_v) THEN version ELSE S_v \o version

(***************************************************************************)
(* The registry: the binaries the model installs, and what the release     *)
(* fetcher and the nightly builder can supply.                             *)
(***************************************************************************)
BinaryNames == {S_sui, S_mvr}
\* BinaryConfig of the two: sui is an archive, network based; mvr standalone
network_based(name) == name = S_sui
is_standalone(name) == name = S_mvr

Releases == {ensure_version_prefix(S_1_9_0), ensure_version_prefix(S_1_10_0)}
Networks == {"testnet"}
Branches == {"main"}

(***************************************************************************)
(* The file system and the two stores.                                     *)
(***************************************************************************)
VARIABLES
    dirs,            \* the directories initialize() creates that exist
    binaries,        \* binaries_dir(): artifact path -> content
    default_bin,     \* get_default_bin_dir(): file name -> [content, mode]
    installed_json,  \* installed_binaries.json: [exists, form, objects]
    default_json,    \* default_version.json: [exists, form, map]
    builds,          \* number of nightly builds made so far
    old_config,      \* get_old_suiup_config_dir(): the two store files in it
    releases,        \* release_archive_dir(): entry name -> [kind, age]
    suibase,         \* the suibase directory and the external commands run
    steps,           \* number of invocations so far
    last,            \* the last invocation and its outcome
    update_check,    \* the invocation in flight and its background update check
    writers          \* the invocations followed step by step, each at its step

vars == <<dirs, binaries, default_bin, installed_json, default_json,
          builds, old_config, releases, suibase, steps, last, update_check,
          writers>>

\* what lies outside the directories of the installed binaries
outside == <<old_config, releases, suibase>>

AllDirs == {"config", "data", "cache", "binaries", "releases", "default_bin"}

\* a path under binaries_dir(): <network>/[bin/]<file>
Path(network, bin, file) == [network |-> network, bin |-> bin, file |-> file]

\* the bytes of an artifact: which archive entry (or build) it came from
Content(entry, network, version, build) ==
    [entry |-> entry, network |-> network, version |-> version, build |-> build]

\* BinaryVersion
BinaryVersion(name, network, version, debug, path) ==
    [binary_name |-> name, network_release |-> network, version |-> version,
     debug |-> debug, path |-> path]

\* the state of the disk as one value, threaded through the handlers
Disk == [dirs |-> dirs, binaries |-> binaries, default_bin |-> default_bin,
         installed_json |-> installed_json, default_json |-> default_json,
         builds |-> builds, old_config |-> old_config, releases |-> releases,
         suibase |-> suibase]

\* a function with one more (or one replaced) / one fewer entry
Put(f, k, v) == [x \in DOMAIN f \cup {k} |-> IF x = k THEN v ELSE f[x]]
Del(f, k) == [x \in DOMAIN f \ {k} |-> f[x]]
EmptyMap == [x \in {} |-> x]

Exists(d, p) == p \in DOMAIN d.binaries

\* Option<T>
None == <<>>
Some(x) == <<x>>
is_some(o) == o # <<>>
unwrap(o) == o[1]

\* what a handler returns: the disk it leaves, Ok or Err, and what it printed
Result(d, ok, msg) == [d |-> d, ok |-> ok, msg |-> msg]

NoPath == Path("", FALSE, S_empty)

(***************************************************************************)
(* The two store files as text: the form of what is written in the file,  *)
(* and what serde_json makes of it.                                        *)
(***************************************************************************)
\* installed_binaries.json: "json" is an array of objects with the fields of
\* BinaryVersion; anything else ("garbage", "truncated", "mixed") is no JSON
InstalledFile(form, objects) ==
    [exists |-> TRUE, form |-> form, objects |-> objects]

\* default_version.json: "tuples" is an object of name -> [network, version,
\* debug] arrays, "typed" an object of name -> {network_release, version,
\* debug} objects; anything else is no JSON
DefaultFile(form, map) == [exists |-> TRUE, form |-> form, map |-> map]

\* a store file that is not there
NoInstalledFile == [exists |-> FALSE, form |-> "none", objects |-> <<>>]
NoDefaultFile == [exists |-> FALSE, form |-> "none", map |-> EmptyMap]

\* serde_json::to_string_pretty of one BinaryVersion: an object, field by
\* field; path is Option<String>
to_json_object(b) ==
    << <<"binary_name", b.binary_name>>,
       <<"network_release", b.network_release>>,
       <<"version", b.version>>,
       <<"debug", b.debug>>,
       <<"path", b.path>> >>

\* (mutant) every object is written with the path of no file
to_jsonForgetsPath(bins) ==
    [i \in 1..Len(bins) |-> to_json_object([bins[i] EXCEPT !.path = NoPath])]

\* serde_json::to_string_pretty of the aggregate: an array of objects
to_json(bins) == [i \in 1..Len(bins) |-> to_json_object(bins[i])]

\* the value of a field of a JSON object
json_field(obj, key) ==
    obj[CHOOSE k \in 1..Len(obj) : obj[k][1] = key][2]

\* serde_json::from_str of the aggregate
from_json(objects) ==
    [i \in 1..Len(objects) |->
        [binary_name |-> json_field(objects[i], "binary_name"),
         network_release |-> json_field(objects[i], "network_release"),
         version |-> json_field(objects[i], "version"),
         debug |-> json_field(objects[i], "debug"),
         path |-> json_field(objects[i], "path")]]

\* serde_json::from_str::<Vec<BinaryVersion>>: succeeds on an array of
\* objects only
installed_parses(file) == file.form = "json"

\* (mutant) whatever is in the file is taken for a map
default_parsesAnything(file) == TRUE

\* serde_json::from_reader::<BTreeMap<String, (String, Version, bool)>>: a
\* tuple is read from an array only
default_parses(file) == file.form = "tuples"

(***************************************************************************)
(* paths.rs                                                                *)
(***************************************************************************)
\* (mutant) the empty map is written whether or not the file is there
default_file_pathOverwrites(d) ==
    [d EXCEPT !.default_json = DefaultFile("tuples", EmptyMap)]

\* default_file_path(): writes an empty map when the file is missing
default_file_path(d) ==
    IF ~d.default_json.exists
    THEN [d EXCEPT !.default_json = DefaultFile("tuples", EmptyMap)]
    ELSE d

\* InstalledBinaries::create_file: an empty store
create_file(d) ==
    [d EXCEPT !.installed_json = InstalledFile("json", to_json(<<>>))]

\* installed_binaries_file()
installed_binaries_file(d) ==
    IF ~d.installed_json.exists THEN create_file(d) ELSE d

\* metadata.len() > 0 of a store file
has_content(file) == file.exists /\ file.form # "empty"

\* std::fs::copy(&old_file, &new_file) of the two JSON files, in the order
\* of json_files, each when the old one exists and the new one does not;
\* migrated_files is kept over the runs
copy_default_version(d) ==
    IF d.old_config.default_json.exists /\ ~d.default_json.exists
    THEN [d EXCEPT !.default_json = d.old_config.default_json,
                   !.old_config.migrated_files =
                       @ \cup {"default_version.json"}]
    ELSE d

copy_installed_binaries(d) ==
    IF d.old_config.installed_json.exists /\ ~d.installed_json.exists
    THEN [d EXCEPT !.installed_json = d.old_config.installed_json,
                   !.old_config.migrated_files =
                       @ \cup {"installed_binaries.json"}]
    ELSE d

\* migrate_config_files(): nothing without the old directory, nothing when
\* the new directory holds either store file; else the new directory is
\* created and the files are copied
migrate_config_files(d) ==
    IF ~d.old_config.exists THEN d
    ELSE IF "config" \in d.dirs
            /\ (d.default_json.exists \/ d.installed_json.exists)
    THEN d
    ELSE copy_installed_binaries(
             copy_default_version([d EXCEPT !.dirs = @ \cup {"config"}]))

\* (mutant) the cleanup that deletes the old files whatever the new
\* directory holds
cleanup_old_config_filesAlways(d) ==
    [d EXCEPT !.old_config.default_json = NoDefaultFile,
              !.old_config.installed_json = NoInstalledFile]

\* cleanup_old_config_files(): an old file is removed when the new file of
\* its name exists and is not empty; the old directory holds the new one
\* and so remove_dir never removes it
cleanup_old_config_files(d) ==
    IF ~d.old_config.exists \/ "config" \notin d.dirs THEN d
    ELSE [d EXCEPT
            !.old_config.default_json =
                IF @.exists /\ has_content(d.default_json)
                THEN NoDefaultFile ELSE @,
            !.old_config.installed_json =
                IF @.exists /\ has_content(d.installed_json)
                THEN NoInstalledFile ELSE @]

\* initialize(): the migration, create_dir_all of every directory (the old
\* configuration directory is the parent of the new one), then both store
\* files
initialize(d) ==
    installed_binaries_file(
        default_file_path(
            [migrate_config_files(d) EXCEPT !.dirs = @ \cup AllDirs,
                                            !.old_config.exists = TRUE]))

(***************************************************************************)
(* types.rs: InstalledBinaries                                             *)
(***************************************************************************)
SameKey(a, b) ==
    /\ a.binary_name = b.binary_name
    /\ a.network_release = b.network_release
    /\ a.version = b.version
    /\ a.debug = b.debug

\* InstalledBinaries::new(): bootstrap the file if missing, then read it
InstalledBinaries_new(d) == installed_binaries_file(d)
\* whether new() could read it: a file that does not parse is an error
InstalledBinaries_loaded(d) == installed_parses(d.installed_json)
InstalledBinaries_binaries(d) == from_json(d.installed_json.objects)

\* add_binary: a record with the same key is replaced in place
add_binary(bins, b) ==
    IF \E i \in 1..Len(bins) : SameKey(bins[i], b)
    THEN [i \in 1..Len(bins) |-> IF SameKey(bins[i], b) THEN b ELSE bins[i]]
    ELSE Append(bins, b)

\* remove_binary: every record of that name goes
remove_binary(bins, name) ==
    SelectSeq(bins, LAMBDA b : b.binary_name # name)

\* save_to_file: the whole aggregate overwrites the file
save_to_file(d, bins) ==
    [d EXCEPT !.installed_json = InstalledFile("json", to_json(bins))]

(***************************************************************************)
(* handlers/mod.rs                                                         *)
(***************************************************************************)
DefaultEntry(network, version, debug) ==
    [network |-> network, version |-> version, debug |-> debug]

RECURSIVE UpsertAll(_, _, _)
UpsertAll(map, names, entry) ==
    IF names = <<>> THEN map
    ELSE UpsertAll(Put(map, Head(names), entry), Tail(names), entry)

\* (mutant) the map written holds the named entries and nothing else
update_default_version_fileDropsOthers(d, names, network, version, debug) ==
    LET d1 == default_file_path(d)
        map == UpsertAll(EmptyMap, names, DefaultEntry(network, version, debug))
    IN  [d1 EXCEPT !.default_json = DefaultFile("tuples", map)]

\* (mutant) an entry that is already there is kept as it is
update_default_version_fileKeepsExisting(d, names, network, version, debug) ==
    LET d1 == default_file_path(d)
        old == d1.default_json.map
        new == UpsertAll(old, names, DefaultEntry(network, version, debug))
        map == [n \in DOMAIN new |-> IF n \in DOMAIN old THEN old[n] ELSE new[n]]
    IN  [d1 EXCEPT !.default_json = DefaultFile("tuples", map)]

\* update_default_version_file: read the map, upsert each name, write it back
update_default_version_file(d, names, network, version, debug) ==
    LET d1 == default_file_path(d)
        map == UpsertAll(d1.default_json.map, names,
                         DefaultEntry(network, version, debug))
    IN  [d1 EXCEPT !.default_json = DefaultFile("tuples", map)]

\* File::create(path) then write_all(text): what the file holds when the
\* process is killed before create, after create (the file is truncated to
\* nothing), inside write_all (a proper prefix of the text), after write_all
killed_in_save(old, new) ==
    {old, DefaultFile("empty", EmptyMap), DefaultFile("partial", EmptyMap), new}

\* bytes of a network name
network_len(network) ==
    CASE network = "testnet" -> 7
      [] network = "main" -> 4
      [] network = "standalone" -> 10
      [] OTHER -> 0

\* bytes of one entry in serde_json::to_string_pretty(&map):
\*   "name": [ / "network", / "version", / false / ]   with their indents
pretty_entry_len(name, entry) ==
    Len(name) + network_len(entry.network) + Len(entry.version)
        + (IF entry.debug THEN 4 ELSE 5) + 32

RECURSIVE pretty_entries_len(_, _)
pretty_entries_len(map, names) ==
    IF names = {} THEN 0
    ELSE LET n == CHOOSE x \in names : TRUE
         IN  pretty_entry_len(n, map[n]) + pretty_entries_len(map, names \ {n})

\* bytes of serde_json::to_string_pretty(&map): "{}" for the empty map, else
\* the entries between "{\n" and "\n}" with ",\n" between two of them
pretty_len(map) ==
    IF DOMAIN map = {} THEN 2
    ELSE 4 + pretty_entries_len(map, DOMAIN map)
           + 2 * (Cardinality(DOMAIN map) - 1)

\* bytes in default_version.json; a file File::create has just truncated
\* holds none, a written one holds its text ("mixed" keeps in map the text
\* whose tail is left)
file_len(file) ==
    IF file.form \in {"tuples", "mixed"} THEN pretty_len(file.map) ELSE 0

\* write_all on a handle File::create returned: the text goes to offset 0
\* and the file keeps whatever another handle wrote beyond its end
write_all(file, map) ==
    IF file_len(file) <= pretty_len(map)
    THEN DefaultFile("tuples", map)
    ELSE DefaultFile("mixed", file.map)

\* whether update_default_version_file could read the map: from_reader
\* fails on a file that does not parse, before anything is written
default_loaded(d) == default_parses(default_file_path(d).default_json)

\* std::fs::copy(src, dst): the bytes of src, with the mode src has
fs_copy(d, src, dst) ==
    [d EXCEPT !.default_bin =
        Put(@, dst, [content |-> d.binaries[src], mode |-> "0o644"])]

\* (mutant) the permissions are left as the copy made them
set_permissionsSkipped(d, dst) == d

\* perms.set_mode(0o755); std::fs::set_permissions(&dst, perms)
set_permissions(d, dst) ==
    [d EXCEPT !.default_bin = Put(@, dst, [@[dst] EXCEPT !.mode = "0o755"])]

\* std::fs::copy(src, dst) followed by set_mode(0o755)
CopyExecutable(d, src, dst) ==
    [d EXCEPT !.default_bin =
        Put(@, dst, [content |-> d.binaries[src], mode |-> "0o755"])]

\* check_if_binaries_exist
check_if_binaries_exist(d, binary, network, version) ==
    LET binary_version == IF version = S_empty THEN binary
                          ELSE Fmt2(binary, version)
    IN  Exists(d, Path(network, FALSE, binary_version))

\* the path update_after_install looks for before it asks anything
after_install_binary_path(binary, network, version, debug) ==
    LET binary_name == IF binary = S_sui /\ debug THEN FmtDebug(binary)
                       ELSE binary
    IN  Path(network, version = S_nightly, Fmt2(binary_name, version))

\* the file update_after_install copies from
after_install_src(binary, network, version, debug) ==
    LET filename == IF debug THEN FmtDebug2(binary, version)
                    ELSE Fmt2(binary, version)
        stripped == IF version = S_empty
                    THEN SubSeq(filename, 1, Len(filename) - 1)
                    ELSE filename
    IN  Path(network, version = S_nightly, stripped)

\* the default-bin file update_after_install writes
after_install_dst(binary, debug) == binary

RECURSIVE after_install_copy(_, _, _, _, _)
after_install_copy(d, names, network, version, debug) ==
    IF names = <<>> THEN Result(d, TRUE, "copied")
    ELSE LET src == after_install_src(Head(names), network, version, debug)
             dst == after_install_dst(Head(names), debug)
         IN  IF ~Exists(d, src) THEN Result(d, FALSE, "copy failed")
             ELSE after_install_copy(CopyExecutable(d, src, dst),
                                     Tail(names), network, version, debug)

\* (mutant) whatever is answered is taken for a yes
acceptsAnything(input) == TRUE

\* the answers, trimmed and in lower case, that the match takes for a yes
accepts(input) == input \in {"y", "yes"}

\* the answers that keep the current default
Declines == {"", "n", "no"}

\* update_after_install; input is what the user answers when yes is not given
update_after_install(d, names, network, version, debug, yes, input) ==
    IF \E i \in 1..Len(names) :
          ~Exists(d, after_install_binary_path(names[i], network, version, debug))
    THEN Result(d, TRUE, "binary not found, skipping default")
    ELSE IF yes \/ accepts(input)
    THEN LET c == after_install_copy(d, names, network, version, debug)
         IN  IF ~c.ok THEN c
             ELSE IF ~default_loaded(c.d)
             THEN Result(default_file_path(c.d), FALSE,
                         "cannot deserialize default file")
             ELSE Result(update_default_version_file(c.d, names, network,
                                                     version, debug),
                         TRUE, "set as default")
    ELSE Result(d, TRUE, "keeping the current default")

\* installed_binaries_grouped_by_network: the records of one network, in order
grouped_by_network(bins, network) ==
    SelectSeq(bins, LAMBDA b : b.network_release = network)

(***************************************************************************)
(* handlers/install.rs                                                     *)
(***************************************************************************)
\* (mutant) the record is pushed without looking for its key
install_binaryAppends(d, name, network, version, debug, binary_path, yes, input) ==
    LET d1 == InstalledBinaries_new(d)
        bins == Append(InstalledBinaries_binaries(d1),
                       BinaryVersion(name, network, version, debug,
                                     binary_path))
        d2 == save_to_file(d1, bins)
    IN  IF ~InstalledBinaries_loaded(d1)
        THEN Result(d1, FALSE, "cannot deserialize installed binaries")
        ELSE update_after_install(d2, <<name>>, network, version, debug, yes,
                                  input)

\* install_binary: record the artifact, save the store, then offer to
\* promote it
install_binary(d, name, network, version, debug, binary_path, yes, input) ==
    LET d1 == InstalledBinaries_new(d)
        bins == add_binary(InstalledBinaries_binaries(d1),
                           BinaryVersion(name, network, version, debug,
                                         binary_path))
        d2 == save_to_file(d1, bins)
    IN  IF ~InstalledBinaries_loaded(d1)
        THEN Result(d1, FALSE, "cannot deserialize installed binaries")
        ELSE update_after_install(d2, <<name>>, network, version, debug, yes,
                                  input)

\* the release fetcher and extract_version_from_release: the version of the
\* archive it downloads, or nothing when there is no such release
fetch_release(version_spec, latest) ==
    IF is_some(version_spec)
    THEN IF ensure_version_prefix(unwrap(version_spec)) \in Releases
         THEN Some(ensure_version_prefix(unwrap(version_spec)))
         ELSE None
    ELSE Some(latest)

\* extract_component: the archive entry named binary is written to
\* <network>/<binary>-<version>
extract_component(d, binary, network, version) ==
    [d EXCEPT !.binaries =
        Put(@, Path(network, FALSE, Fmt2(binary, version)),
            Content(binary, network, version, 0))]

\* the path install_from_release records for what it extracted
release_binary_path(name, network, version, debug) ==
    Path(network, FALSE, Fmt2(name, version))

\* install_from_release
install_from_release(d, name, network, version_spec, debug, yes, input, latest) ==
    LET fetched == fetch_release(version_spec, latest)
        version == unwrap(fetched)
        binary_name == IF debug /\ name = S_sui THEN FmtDebug(name) ELSE name
    IN  IF ~is_some(fetched) THEN Result(d, FALSE, "download failed")
        ELSE IF ~check_if_binaries_exist(d, binary_name, network, version)
        THEN install_binary(
                 extract_component(d, binary_name, network, version),
                 name, network, version, debug,
                 release_binary_path(name, network, version, debug),
                 yes, input)
        ELSE Result(d, TRUE, "already installed")

\* the name install_from_nightly gives the binary cargo built
nightly_dst_name(name, debug) ==
    IF debug THEN FmtDebug2(name, S_nightly) ELSE Fmt2(name, S_nightly)

\* install_from_nightly: cargo install --force into <branch>/bin, the rename
\* to <name>[-debug]-nightly, then install_binary
install_from_nightly(d, name, branch, debug, yes, input) ==
    LET dst == Path(branch, TRUE, nightly_dst_name(name, debug))
        built == [d EXCEPT
                    !.builds = @ + 1,
                    !.binaries = Put(@, dst, Content(name, branch, S_nightly,
                                                     d.builds + 1))]
    IN  install_binary(built, name, branch, S_nightly, debug, dst, yes, input)

(***************************************************************************)
(* standalone.rs                                                           *)
(***************************************************************************)
\* StandaloneInstaller::download_version: the tag it settled on, and the
\* file standalone/<name>-<tag>, downloaded unless it is already there
download_version(d, version, name, latest) ==
    LET tag == IF is_some(version) THEN ensure_version_prefix(unwrap(version))
               ELSE latest
        p == Path("standalone", FALSE, Fmt2(name, tag))
    IN  IF Exists(d, p) THEN [d |-> d, ok |-> TRUE, version |-> tag]
        ELSE IF tag \notin Releases
        THEN [d |-> d, ok |-> FALSE, version |-> tag]
        ELSE [d |-> [d EXCEPT !.binaries =
                        Put(@, p, Content(name, "standalone", tag, 0))],
              ok |-> TRUE, version |-> tag]

\* install_standalone (handlers/install.rs)
install_standalone(d, version, binary_name, yes, input, latest) ==
    LET network == "standalone"
        given == IF is_some(version) THEN unwrap(version) ELSE S_empty
        dl == download_version(d, version, binary_name, latest)
    IN  IF ~check_if_binaries_exist(d, binary_name, network, given)
        THEN IF ~dl.ok THEN Result(dl.d, FALSE, "version not found")
             ELSE install_binary(dl.d, binary_name, network, dl.version, FALSE,
                                 Path(network, FALSE,
                                      Fmt2(binary_name, dl.version)),
                                 yes, input)
        ELSE Result(d, TRUE, "already installed")

(***************************************************************************)
(* component/install.rs                                                    *)
(***************************************************************************)
\* (mutant) the debug flag is never refused
debug_not_supportedNever(name, nightly, debug) == FALSE

\* the two flag checks of install_component
debug_not_supported(name, nightly, debug) ==
    name # S_sui /\ debug /\ ~is_some(nightly)

nightly_and_version(version, nightly) ==
    is_some(nightly) /\ is_some(version)

\* install_component: the directories first, then the flag checks, then the
\* installer the binary calls for
install_component(d, name, network, version, nightly, debug, yes, input, latest) ==
    LET d1 == [d EXCEPT !.dirs = @ \cup {"default_bin", "binaries"}]
    IN  IF debug_not_supported(name, nightly, debug)
        THEN Result(d1, FALSE, "debug flag is only available for sui")
        ELSE IF nightly_and_version(version, nightly)
        THEN Result(d1, FALSE, "cannot install from nightly and a release")
        ELSE IF is_some(nightly)
        THEN install_from_nightly(d1, name, unwrap(nightly), debug, yes, input)
        ELSE IF is_standalone(name)
        THEN install_standalone(d1, version, name, yes, input, latest)
        ELSE install_from_release(d1, name, network, version, debug, yes,
                                  input, latest)

(***************************************************************************)
(* commands/switch.rs                                                      *)
(***************************************************************************)
\* what a promotion returns: Result, the target it resolved and the source
\* path it computed
Promoted(d, ok, msg, name, network, version, debug, src) ==
    [d |-> d, ok |-> ok, msg |-> msg, name |-> name, network |-> network,
     version |-> version, debug |-> debug, src |-> src]

\* sort_by(|a, b| b.version.cmp(&a.version)) is stable: element [0] is the
\* first record, in store order, whose version no other exceeds
first_of_greatest_version(matching) ==
    LET i == CHOOSE i \in 1..Len(matching) :
                /\ \A j \in 1..Len(matching) :
                      StrLeq(matching[j].version, matching[i].version)
                /\ \A j \in 1..(i - 1) :
                      matching[j].version # matching[i].version
    IN  matching[i]

\* find_matching_binary: the records of (name, network)
matching_binaries(bins, binary_name, network_release) ==
    SelectSeq(bins, LAMBDA b : /\ b.binary_name = binary_name
                               /\ b.network_release = network_release)

\* the source path switch_to_binary builds
switch_src(binary) ==
    Path(binary.network_release, binary.version = S_nightly,
         IF binary.debug
         THEN FmtDebug2(binary.binary_name, binary.version)
         ELSE Fmt2(binary.binary_name, binary.version))

\* (mutant) the destination is the binary name, debug or not
switch_dstPlain(binary) == binary.binary_name

\* the default-bin file switch_to_binary writes
switch_dst(binary) ==
    IF binary.debug THEN FmtDebug(binary.binary_name) ELSE binary.binary_name

\* std::fs::copy(src, dst) cut short: dst holds a prefix of the bytes of
\* src (no archive entry is whole) and is not yet made executable
PartialCopy(d, src, dst) ==
    [d EXCEPT !.default_bin =
        Put(@, dst, [content |-> [d.binaries[src] EXCEPT !.entry = S_empty],
                     mode |-> "0o644"])]

\* the default-bin state when switch_to_binary is killed between
\* remove_file(dst) and the end of std::fs::copy
killed_in_copy(d, binary) ==
    LET d1 == [d EXCEPT !.default_bin = Del(@, switch_dst(binary))]
    IN  {d1, PartialCopy(d1, switch_src(binary), switch_dst(binary))}

\* (mutant) a destination that exists is kept as it is
switch_to_binaryKeepsExisting(d, binary) ==
    LET src == switch_src(binary)
        dst == switch_dst(binary)
        d1 == IF dst \in DOMAIN d.default_bin THEN d
              ELSE CopyExecutable(d, src, dst)
    IN  IF ~Exists(d, src)
        THEN Promoted(d, FALSE, "copy failed", binary.binary_name,
                      binary.network_release, binary.version, binary.debug, src)
        ELSE IF ~default_loaded(d1)
        THEN Promoted(default_file_path(d1), FALSE,
                      "cannot deserialize default file", binary.binary_name,
                      binary.network_release, binary.version, binary.debug, src)
        ELSE Promoted(update_default_version_file(
                          d1, <<binary.binary_name>>, binary.network_release,
                          binary.version, binary.debug),
                      TRUE, "switched", binary.binary_name,
                      binary.network_release, binary.version, binary.debug, src)

\* switch_to_binary: remove the destination, copy, chmod, update the store
switch_to_binary(d, binary) ==
    LET src == switch_src(binary)
        dst == switch_dst(binary)
        d1 == [d EXCEPT !.default_bin = Del(@, dst)]
    IN  IF ~Exists(d1, src)
        THEN Promoted(d1, FALSE, "copy failed", binary.binary_name,
                      binary.network_release, binary.version, binary.debug, src)
        ELSE IF ~default_loaded(d1)
        THEN Promoted(default_file_path(CopyExecutable(d1, src, dst)), FALSE,
                      "cannot deserialize default file", binary.binary_name,
                      binary.network_release, binary.version, binary.debug, src)
        ELSE Promoted(update_default_version_file(
                          CopyExecutable(d1, src, dst),
                          <<binary.binary_name>>, binary.network_release,
                          binary.version, binary.debug),
                      TRUE, "switched", binary.binary_name,
                      binary.network_release, binary.version, binary.debug, src)

\* switch::Command::exec
switch_exec(d, binary_name, network_release) ==
    LET d1 == InstalledBinaries_new(d)
        matching == matching_binaries(InstalledBinaries_binaries(d1),
                                      binary_name, network_release)
    IN  IF ~InstalledBinaries_loaded(d1)
        THEN Promoted(d1, FALSE, "cannot deserialize installed binaries",
                      binary_name, network_release, S_empty, FALSE, NoPath)
        ELSE IF matching = <<>>
        THEN Promoted(d1, FALSE, "no installed binary found", binary_name,
                      network_release, S_empty, FALSE, NoPath)
        ELSE switch_to_binary(d1, first_of_greatest_version(matching))

(***************************************************************************)
(* commands/default/set.rs                                                 *)
(***************************************************************************)
\* the network default set looks in
set_network(name, network, nightly) ==
    IF ~network_based(name) \/ is_standalone(name)
    THEN IF is_some(nightly) THEN unwrap(nightly) ELSE "standalone"
    ELSE IF is_some(nightly) THEN unwrap(nightly) ELSE network

\* an explicit version gets its v
set_explicit_version(version) ==
    IF starts_with(version, S_v) THEN version ELSE S_v \o version

\* max_by(|a, b| a.version.cmp(&b.version)): the greatest version string,
\* None when there is no record
max_version(named) ==
    IF named = <<>> THEN None
    ELSE LET i == CHOOSE i \in 1..Len(named) :
                     \A j \in 1..Len(named) :
                         StrLeq(named[j].version, named[i].version)
         IN  Some(named[i].version)

\* (mutant) the version given is not looked at
set_versionIgnoresRequest(parsed_version, named) == max_version(named)

\* the version default set promotes: the one given, or the greatest
\* installed one
set_version(parsed_version, named) ==
    IF is_some(parsed_version)
    THEN Some(set_explicit_version(unwrap(parsed_version)))
    ELSE max_version(named)

\* the default-bin file default set writes; the name is rebound to it
set_display_name(name, debug) == IF debug THEN FmtDebug(name) ELSE name

\* the source path default set builds (name is already the display name
\* when debug is given)
set_src(name, network, version, debug, nightly) ==
    Path(network, is_some(nightly),
         IF debug THEN FmtDebug2(set_display_name(name, debug), version)
         ELSE Fmt2(name, version))

\* default::set::Command::exec
set_exec(d, name, parsed_network, parsed_version, debug, nightly) ==
    LET network == set_network(name, parsed_network, nightly)
        d1 == InstalledBinaries_new(d)
        all == InstalledBinaries_binaries(d1)
        bins == grouped_by_network(all, network)
        named == SelectSeq(bins, LAMBDA b : b.binary_name = name)
        chosen == set_version(parsed_version, named)
        version == unwrap(chosen)
        display == set_display_name(name, debug)
        src == set_src(name, network, version, debug, nightly)
        d2 == [d1 EXCEPT !.default_bin = Del(@, display)]
        Fail(dd, msg) == Promoted(dd, FALSE, msg, name, network,
                                  IF is_some(parsed_version)
                                  THEN set_explicit_version(unwrap(parsed_version))
                                  ELSE S_empty,
                                  debug, NoPath)
    IN  IF ~InstalledBinaries_loaded(d1)
        THEN Fail(d1, "cannot deserialize installed binaries")
        ELSE IF bins = <<>> THEN Fail(d1, "no binaries installed for network")
        ELSE IF ~\E i \in 1..Len(all) : all[i].binary_name = name
        THEN Fail(d1, "binary not found in installed binaries")
        ELSE IF ~is_some(chosen)
        THEN Fail(d1, "no version found")
        ELSE IF ~\E i \in 1..Len(bins) :
                    /\ bins[i].binary_name = name
                    /\ bins[i].version = version
                    /\ bins[i].network_release = network
        THEN Fail(d1, "binary version not found")
        ELSE IF ~Exists(d2, src)
        THEN Promoted(d2, FALSE, "copy failed", name, network, version,
                      debug, src)
        ELSE IF ~default_loaded(d2)
        THEN Promoted(default_file_path(CopyExecutable(d2, src, display)),
                      FALSE, "cannot deserialize default file", name, network,
                      version, debug, src)
        ELSE Promoted(update_default_version_file(
                          CopyExecutable(d2, src, display),
                          <<display>>, network, version, debug),
                      TRUE, "default updated", name, network, version,
                      debug, src)

(***************************************************************************)
(* commands/default/get.rs                                                 *)
(***************************************************************************)
\* serde_json::from_str of default_version.json: the entries, or an error
load_default(file) ==
    IF default_parses(file) THEN Some(file.map) ELSE None

\* the outcome of a command that prints a table
Table(d, ok, msg, table) == [d |-> d, ok |-> ok, msg |-> msg, table |-> table]

\* the least of a set of strings, as a BTreeMap iterates its keys
least_key(keys) == CHOOSE k \in keys : \A other \in keys : StrLeq(k, other)

\* Binaries::from(map): one row per entry, in key order, with no path
RECURSIVE rows_from(_, _)
rows_from(map, keys) ==
    IF keys = {} THEN <<>>
    ELSE LET k == least_key(keys)
         IN  <<BinaryVersion(k, map[k].network, map[k].version, map[k].debug,
                             None)>>
             \o rows_from(map, keys \ {k})

Binaries_from(map) == rows_from(map, DOMAIN map)

\* (mutant) an entry whose default-bin file is gone makes the command fail
get_execChecksBacking(d) ==
    LET d1 == default_file_path(d)
    IN  IF \/ ~default_parses(d1.default_json)
           \/ \E k \in DOMAIN d1.default_json.map :
                  k \notin DOMAIN d1.default_bin
        THEN Table(d1, FALSE, "cannot deserialize default file", <<>>)
        ELSE Table(d1, TRUE, "default binaries",
                   Binaries_from(d1.default_json.map))

\* default::get::Command::exec: the path (bootstrapping the file), the text,
\* the map, the table
get_exec(d) ==
    LET d1 == default_file_path(d)
    IN  IF ~default_parses(d1.default_json)
        THEN Table(d1, FALSE, "cannot deserialize default file", <<>>)
        ELSE Table(d1, TRUE, "default binaries",
                   Binaries_from(d1.default_json.map))

(***************************************************************************)
(* component/remove.rs                                                     *)
(***************************************************************************)
\* (mutant) there is always something to remove
nothing_to_removeNever(to_remove) == FALSE

\* binaries_to_remove.is_empty()
nothing_to_remove(to_remove) == to_remove = <<>>

\* (mutant) the pre-flight check never finds anything missing
preflight_missingNever(d, to_remove) == FALSE

\* the pre-flight check: some record's path is not on disk
preflight_missing(d, to_remove) ==
    \E i \in 1..Len(to_remove) : ~Exists(d, to_remove[i].path)

\* the first record, in order, whose recorded path is not on disk
first_missing(d, to_remove) ==
    LET i == CHOOSE i \in 1..Len(to_remove) :
                /\ ~Exists(d, to_remove[i].path)
                /\ \A j \in 1..(i - 1) : Exists(d, to_remove[j].path)
    IN  to_remove[i].path

\* remove_file of each record's path, in order; gives up at the first that
\* fails
RECURSIVE remove_files(_, _)
remove_files(d, to_remove) ==
    IF to_remove = <<>> THEN Result(d, TRUE, "removed")
    ELSE IF ~Exists(d, Head(to_remove).path)
    THEN Result(d, FALSE, "cannot remove file")
    ELSE remove_files([d EXCEPT !.binaries = Del(@, Head(to_remove).path)],
                      Tail(to_remove))

\* the default-bin file remove_component deletes
remove_default_bin_name(binary) == binary

\* remove_component; src is the missing path it reports when it aborts
remove_component(d, binary) ==
    LET d1 == InstalledBinaries_new(d)
        bins == InstalledBinaries_binaries(d1)
        to_remove == SelectSeq(bins, LAMBDA b : b.binary_name = binary)
        d2 == default_file_path(d1)
        removed == remove_files(d2, to_remove)
        d3 == [removed.d EXCEPT
                 !.default_bin = Del(@, remove_default_bin_name(binary)),
                 !.default_json = DefaultFile("tuples",
                                              Del(d2.default_json.map, binary))]
        Out(dd, ok, msg, src) ==
            Promoted(dd, ok, msg, binary, "", S_empty, FALSE, src)
    IN  IF ~InstalledBinaries_loaded(d1)
        THEN Out(d1, FALSE, "cannot deserialize installed binaries", NoPath)
        ELSE IF nothing_to_remove(to_remove)
        THEN Out(d1, TRUE, "no binaries found to remove", NoPath)
        ELSE IF preflight_missing(d1, to_remove)
        THEN Out(d1, TRUE, "does not exist, aborting",
                 first_missing(d1, to_remove))
        ELSE IF ~default_parses(d2.default_json)
        THEN Out(d2, FALSE, "cannot deserialize default file", NoPath)
        ELSE IF ~removed.ok THEN Out(removed.d, FALSE, removed.msg, NoPath)
        ELSE Out(save_to_file(d3, remove_binary(bins, binary)),
                 TRUE, "removed", NoPath)

(***************************************************************************)
(* main.rs: one invocation is initialize() and then the command.           *)
(***************************************************************************)
\* what the command line can name
\* one version written without its v and one with it
VersionArgs == {S_1_9_0, S_v \o S_1_10_0}
VersionOpts == {None} \cup {Some(v) : v \in VersionArgs}
NightlyOpts == {None} \cup {Some(b) : b \in Branches}

\* install_path of the design: <network>/[bin/]<name>[-debug]-<version>
ArtifactPath(name, network, version, debug) ==
    Path(network, version = S_nightly,
         IF debug THEN FmtDebug2(name, version) ELSE Fmt2(name, version))

\* the record of the last invocation: the command, the target it resolved
\* (name, network, version, debug), the version and --nightly it was given,
\* -y, its outcome, the path it resolved or reported, and (for install)
\* whether the key was neither recorded nor on disk before
Last(op, name, network, version, debug, asked, nightly, yes, ok, msg, src, fresh) ==
    [op |-> op, name |-> name, network |-> network, version |-> version,
     debug |-> debug, asked |-> asked, nightly |-> nightly, yes |-> yes,
     ok |-> ok, msg |-> msg, src |-> src, fresh |-> fresh]

HasRecord(bins, name, network, version, debug) ==
    \E i \in 1..Len(bins) :
        /\ bins[i].binary_name = name
        /\ bins[i].network_release = network
        /\ bins[i].version = version
        /\ bins[i].debug = debug

\* no directory of an older suiup; suibase not cloned, no command run
NoOldConfig ==
    [exists |-> FALSE, default_json |-> NoDefaultFile,
     installed_json |-> NoInstalledFile, migrated_files |-> {}]
NoSuibase == [dir |-> {}, exists |-> FALSE, log |-> <<>>]

\* no invocation in flight with its update check; no concurrent writers
NoUpdateCheck ==
    [main |-> "idle", task |-> "none", warned |-> FALSE, at |-> 0]
NoWriters == <<>>

\* the disk a handler leaves becomes the state
Commit(d) ==
    /\ dirs' = d.dirs
    /\ binaries' = d.binaries
    /\ default_bin' = d.default_bin
    /\ installed_json' = d.installed_json
    /\ default_json' = d.default_json
    /\ builds' = d.builds
    /\ old_config' = d.old_config
    /\ releases' = d.releases
    /\ suibase' = d.suibase
    /\ steps' = steps + 1
    /\ UNCHANGED <<update_check, writers>>

Init ==
    /\ dirs = {}
    /\ binaries = EmptyMap
    /\ default_bin = EmptyMap
    /\ installed_json = NoInstalledFile
    /\ default_json = NoDefaultFile
    /\ update_check = NoUpdateCheck
    /\ writers = NoWriters
    /\ builds = 0
    /\ old_config = NoOldConfig
    /\ releases = EmptyMap
    /\ suibase = NoSuibase
    /\ steps = 0
    /\ last = Last("none", S_empty, "", S_empty, FALSE, None, None, FALSE,
                   TRUE, "", NoPath, FALSE)

\* the key install_binary records for an install request
install_network(name, network, nightly) ==
    IF is_some(nightly) THEN unwrap(nightly)
    ELSE IF is_standalone(name) THEN "standalone" ELSE network

install_version(version, nightly, latest) ==
    IF is_some(nightly) THEN S_nightly
    ELSE IF is_some(version) THEN ensure_version_prefix(unwrap(version))
    ELSE latest

\* suiup install <name>[@<network>[-<version>]] [--debug] [--nightly] [-y]
Install ==
    /\ steps < MaxOps
    /\ \E name \in BinaryNames, network \in Networks, version \in VersionOpts,
          nightly \in NightlyOpts, debug \in BOOLEAN, yes \in BOOLEAN :
       \E input \in (IF yes THEN {"y"} ELSE {"n"}),
          latest \in (IF is_some(version) \/ is_some(nightly)
                      THEN {S_v \o S_1_10_0} ELSE Releases) :
          \E d0 \in {initialize(Disk)} :
          \E r \in {install_component(d0, name, network, version, nightly,
                                     debug, yes, input, latest)},
              net \in {install_network(name, network, nightly)},
              ver \in {install_version(version, nightly, latest)} :
              /\ Commit(r.d)
              /\ last' = Last("install", name, net, ver, debug, version,
                              nightly, yes, r.ok, r.msg, NoPath,
                              /\ ~HasRecord(InstalledBinaries_binaries(d0),
                                            name, net, ver, debug)
                              /\ ~Exists(d0, ArtifactPath(name, net, ver, debug)))

\* suiup switch <name>@<network>
Switch ==
    /\ steps < MaxOps
    /\ \E name \in BinaryNames, network \in Networks \cup Branches \cup {"standalone"} :
          \E r \in {switch_exec(initialize(Disk), name, network)} :
              /\ Commit(r.d)
              /\ last' = Last("switch", r.name, r.network, r.version, r.debug,
                              None, None, FALSE, r.ok, r.msg, r.src, FALSE)

\* suiup default set <name>[@<network>[-<version>]] [--debug] [--nightly]
DefaultSet ==
    /\ steps < MaxOps
    /\ \E name \in BinaryNames, network \in Networks, version \in VersionOpts,
          nightly \in NightlyOpts, debug \in BOOLEAN :
          \E r \in {set_exec(initialize(Disk), name, network, version, debug,
                            nightly)} :
              /\ Commit(r.d)
              /\ last' = Last("default set", r.name, r.network, r.version,
                              r.debug, version, nightly, FALSE, r.ok, r.msg,
                              r.src, FALSE)

\* suiup remove <name>
Remove ==
    /\ steps < MaxOps
    /\ \E name \in BinaryNames :
          \E r \in {remove_component(initialize(Disk), name)} :
              /\ Commit(r.d)
              /\ last' = Last("remove", r.name, "", S_empty, FALSE, None, None,
                              FALSE, r.ok, r.msg, r.src, FALSE)

\* the user deletes an installed artifact by hand
ExternalDelete ==
    /\ steps < MaxOps
    /\ \E p \in DOMAIN binaries :
          /\ binaries' = Del(binaries, p)
          /\ steps' = steps + 1
          /\ last' = Last("external delete", S_empty, "", S_empty, FALSE,
                          None, None, FALSE, TRUE, "", p, FALSE)
          /\ UNCHANGED <<outside, dirs, default_bin, installed_json, default_json,
                         builds, update_check, writers>>

Next == Install \/ Switch \/ DefaultSet \/ Remove \/ ExternalDelete

Spec == Init /\ [][Next]_vars

(***************************************************************************)
(* Store files that are damaged or written in another shape.               *)
(***************************************************************************)
\* suiup default get
DefaultGet ==
    /\ steps < MaxOps
    /\ \E r \in {get_exec(initialize(Disk))} :
          /\ Commit(r.d)
          /\ last' = Last("default get", S_empty, "", S_empty, FALSE, None,
                          None, FALSE, r.ok, r.msg, NoPath, FALSE)

\* something other than this build of suiup writes a store file: text that
\* is no JSON, or the same default entries as typed objects
ExternalWrite ==
    /\ steps < MaxOps
    /\ \/ /\ installed_json.exists
          /\ installed_json' = InstalledFile("garbage", <<>>)
          /\ UNCHANGED default_json
       \/ /\ default_json.exists
          /\ \/ default_json' = DefaultFile("garbage", EmptyMap)
             \/ default_json' = DefaultFile("typed", default_json.map)
          /\ UNCHANGED installed_json
    /\ steps' = steps + 1
    /\ last' = Last("external write", S_empty, "", S_empty, FALSE, None, None,
                    FALSE, TRUE, "", NoPath, FALSE)
    /\ UNCHANGED <<outside, dirs, binaries, default_bin, builds, update_check, writers>>

NextStores == Install \/ Switch \/ DefaultSet \/ Remove \/ DefaultGet
                 \/ ExternalWrite

SpecStores == Init /\ [][NextStores]_vars

(***************************************************************************)
(* Properties.                                                             *)
(***************************************************************************)
Promotes == {"switch", "default set"}

\* the display name of the design: <name> or <name>-debug
DisplayName(name, debug) == IF debug THEN FmtDebug(name) ELSE name

Records == from_json(installed_json.objects)

\* C1: after a successful switch or default set of an installed target
\* (name, network, version, debug), the default-version entry of the name is
\* exactly (network, version, debug), and the default-bin file of the
\* target's display name holds the bytes of the target's artifact.
C1_PromotionInvariant ==
    (/\ last.op \in Promotes
     /\ last.ok
     /\ HasRecord(Records, last.name, last.network, last.version, last.debug))
    => /\ last.name \in DOMAIN default_json.map
       /\ default_json.map[last.name] =
              DefaultEntry(last.network, last.version, last.debug)
       /\ DisplayName(last.name, last.debug) \in DOMAIN default_bin
       /\ ArtifactPath(last.name, last.network, last.version, last.debug)
              \in DOMAIN binaries
       /\ default_bin[DisplayName(last.name, last.debug)].content =
              binaries[ArtifactPath(last.name, last.network, last.version,
                                    last.debug)]

\* a debug nightly build promoted by switch
C1_Witness ==
    /\ last.op = "switch"
    /\ last.ok
    /\ last.debug
    /\ last.version = S_nightly
    /\ HasRecord(Records, last.name, last.network, last.version, last.debug)

\* a release promoted by default set
C1_WitnessSet ==
    /\ last.op = "default set"
    /\ last.ok
    /\ last.version \in Releases
    /\ HasRecord(Records, last.name, last.network, last.version, last.debug)

\* C2: when the source a switch or default set resolved is not on disk, the
\* command fails and every default-bin file that existed before it is still
\* there with the same content.
C2_SourceCheckedBeforeDelete ==
    [][(/\ last'.op \in Promotes
        /\ last'.src # NoPath
        /\ last'.src \notin DOMAIN binaries)
       => /\ ~last'.ok
          /\ \A f \in DOMAIN default_bin :
                f \in DOMAIN default_bin' /\ default_bin'[f] = default_bin[f]]_vars

\* C3: when a record of the name has a recorded path that is not on disk,
\* remove deletes no artifact and no default-bin file, leaves both stores as
\* they were, and reports a missing path of one of those records.
C3_PreflightAbort ==
    [][(/\ last'.op = "remove"
        /\ \E i \in 1..Len(Records) :
              /\ Records[i].binary_name = last'.name
              /\ Records[i].path \notin DOMAIN binaries)
       => /\ binaries' = binaries
          /\ default_bin' = default_bin
          /\ installed_json' = installed_json
          /\ default_json' = default_json
          /\ last'.msg = "does not exist, aborting"
          /\ last'.src \notin DOMAIN binaries
          /\ \E i \in 1..Len(Records) :
                /\ Records[i].binary_name = last'.name
                /\ Records[i].path = last'.src]_vars

\* a remove that met a record whose file a manual deletion took away, with
\* a default-bin file and a default entry in place
C3_Witness ==
    /\ last.op = "remove"
    /\ last.msg = "does not exist, aborting"
    /\ last.src \notin DOMAIN binaries
    /\ last.name \in DOMAIN default_bin
    /\ last.name \in DOMAIN default_json.map
    /\ \E i \in 1..Len(Records) :
          Records[i].binary_name = last.name /\ Records[i].path = last.src

\* C4: after a remove that went through, no record of the name is left, the
\* name has no default-version entry, no default-bin file of the binary
\* (plain or debug display name) exists, and every artifact the removed
\* records pointed at is gone.
C4_RemoveLeavesNothing ==
    [][(last'.op = "remove" /\ last'.ok /\ last'.msg = "removed")
       => /\ \A i \in 1..Len(from_json(installed_json'.objects)) :
                from_json(installed_json'.objects)[i].binary_name # last'.name
          /\ last'.name \notin DOMAIN default_json'.map
          /\ last'.name \notin DOMAIN default_bin'
          /\ FmtDebug(last'.name) \notin DOMAIN default_bin'
          /\ \A i \in 1..Len(Records) :
                Records[i].binary_name = last'.name
                => Records[i].path \notin DOMAIN binaries']_vars

\* the path install_binary is handed for a key, by whichever installer ran
SuppliedPath(name, network, version, debug) ==
    IF version = S_nightly
    THEN Path(network, TRUE, nightly_dst_name(name, debug))
    ELSE release_binary_path(name, network, version, debug)

NoDuplicateKeys(bins) ==
    \A i, j \in 1..Len(bins) : SameKey(bins[i], bins[j]) => i = j

\* C5: the store never holds two records with the same (binary_name,
\* network_release, version, debug), and an install that recorded its key
\* leaves exactly one record of it, carrying the path just supplied.
C5_KeyUniqueness ==
    /\ NoDuplicateKeys(Records)
    /\ (/\ last.op = "install"
        /\ last.ok
        /\ last.msg \in {"set as default", "keeping the current default",
                          "binary not found, skipping default"})
       => /\ Cardinality({i \in 1..Len(Records) :
                 /\ Records[i].binary_name = last.name
                 /\ Records[i].network_release = last.network
                 /\ Records[i].version = last.version
                 /\ Records[i].debug = last.debug}) = 1
          /\ \A i \in 1..Len(Records) :
                (/\ Records[i].binary_name = last.name
                 /\ Records[i].network_release = last.network
                 /\ Records[i].version = last.version
                 /\ Records[i].debug = last.debug)
                => Records[i].path = SuppliedPath(last.name, last.network,
                                                  last.version, last.debug)

\* a nightly branch built again: the key was recorded before this install
C5_Witness ==
    /\ last.op = "install"
    /\ last.ok
    /\ ~last.fresh
    /\ last.version = S_nightly
    /\ builds = 2
    /\ last.msg = "keeping the current default"
    /\ HasRecord(Records, last.name, last.network, last.version, last.debug)

\* the records of one key
KeyCount(bins, name, network, version, debug) ==
    Cardinality({i \in 1..Len(bins) :
        /\ bins[i].binary_name = name
        /\ bins[i].network_release = network
        /\ bins[i].version = version
        /\ bins[i].debug = debug})

\* a default-bin file that holds the artifact of the key and is executable
HoldsArtifact(f, name, network, version, debug) ==
    /\ f \in DOMAIN default_bin
    /\ ArtifactPath(name, network, version, debug) \in DOMAIN binaries
    /\ default_bin[f].content =
           binaries[ArtifactPath(name, network, version, debug)]
    /\ default_bin[f].mode = "0o755"

\* C6: an install with -y of a key that was neither recorded nor on disk,
\* when it returns success, leaves exactly one record of the key, the
\* default-version entry of the name equal to (network, version, debug), and
\* an executable default-bin file of the binary holding the artifact; so a
\* second version installed with -y is the default afterwards.
C6_InstallYesBecomesDefault ==
    (/\ last.op = "install"
     /\ last.yes
     /\ last.ok
     /\ last.fresh)
    => /\ KeyCount(Records, last.name, last.network, last.version,
                   last.debug) = 1
       /\ last.name \in DOMAIN default_json.map
       /\ default_json.map[last.name] =
              DefaultEntry(last.network, last.version, last.debug)
       /\ \E f \in {last.name, FmtDebug(last.name)} :
              HoldsArtifact(f, last.name, last.network, last.version,
                            last.debug)

\* C7: a successful default set that was given a version promotes the
\* record of (name, network) whose version is the given one with its v:
\* that record exists, the default-version entry carries that version, and
\* the default-bin file holds the artifact of that version.
C7_ExplicitVersionPromoted ==
    (/\ last.op = "default set"
     /\ last.ok
     /\ is_some(last.asked))
    => /\ last.version = ensure_version_prefix(unwrap(last.asked))
       /\ HasRecord(Records, last.name, last.network,
                    ensure_version_prefix(unwrap(last.asked)), last.debug)
       /\ last.name \in DOMAIN default_json.map
       /\ default_json.map[last.name].version =
              ensure_version_prefix(unwrap(last.asked))
       /\ default_json.map[last.name].network = last.network
       /\ HoldsArtifact(last.name, last.name, last.network,
                        ensure_version_prefix(unwrap(last.asked)), last.debug)

\* 1.10.0 was installed first and 1.9.0 second and made the default; the
\* version is given with its v and names the one that is not the default
C7_Witness ==
    /\ last.op = "default set"
    /\ last.ok
    /\ last.asked = Some(S_v \o S_1_10_0)
    /\ Len(Records) = 2
    /\ Records[1].version = S_v \o S_1_10_0
    /\ Records[2].version = S_v \o S_1_9_0
    /\ Records[1].binary_name = last.name
    /\ Records[2].binary_name = last.name
    /\ default_bin[last.name].content.version = S_v \o S_1_10_0

\* the version is given without its v, 1.10.0 being installed as well
C7_WitnessNoPrefix ==
    /\ last.op = "default set"
    /\ last.ok
    /\ last.asked = Some(S_1_9_0)
    /\ Len(Records) = 2
    /\ Records[1].binary_name = last.name
    /\ Records[2].binary_name = last.name
    /\ default_bin[last.name].content.version = S_v \o S_1_9_0

\* semantic versions: v<number>.<number>..., compared component by component
IsDigit(c) == c >= 48 /\ c <= 57

RECURSIVE SplitDots(_, _)
SplitDots(s, cur) ==
    IF s = <<>> THEN <<cur>>
    ELSE IF Head(s) = 46 THEN <<cur>> \o SplitDots(Tail(s), <<>>)
    ELSE SplitDots(Tail(s), Append(cur, Head(s)))

RECURSIVE ParseNum(_, _)
ParseNum(s, acc) ==
    IF s = <<>> THEN acc ELSE ParseNum(Tail(s), acc * 10 + (Head(s) - 48))

IsSemver(version) ==
    /\ starts_with(version, S_v)
    /\ LET parts == SplitDots(Tail(version), <<>>)
       IN  \A i \in 1..Len(parts) :
              /\ parts[i] # <<>>
              /\ \A k \in 1..Len(parts[i]) : IsDigit(parts[i][k])

SemverKey(version) ==
    LET parts == SplitDots(Tail(version), <<>>)
    IN  [i \in 1..Len(parts) |-> ParseNum(parts[i], 0)]

RECURSIVE NumSeqLess(_, _)
NumSeqLess(a, b) ==
    IF b = <<>> THEN FALSE
    ELSE IF a = <<>> THEN TRUE
    ELSE IF Head(a) # Head(b) THEN Head(a) < Head(b)
    ELSE NumSeqLess(Tail(a), Tail(b))

\* semantic order where both are semantic versions, string order otherwise
SemverLeq(a, b) ==
    IF IsSemver(a) /\ IsSemver(b)
    THEN ~NumSeqLess(SemverKey(b), SemverKey(a))
    ELSE StrLeq(a, b)

\* C8: a switch or default set that was given no version and chose a record
\* chose, among the records of (name, network), one whose version no other
\* exceeds in semantic-version order.
C8_SemverGreatestChosen ==
    (/\ last.op \in Promotes
     /\ last.asked = None
     /\ last.msg \in {"switched", "default updated", "copy failed"})
    => \A i \in 1..Len(Records) :
          (/\ Records[i].binary_name = last.name
           /\ Records[i].network_release = last.network)
          => SemverLeq(Records[i].version, last.version)

\* a default-bin file this step neither created, deleted nor rewrote
Untouched(f) ==
    /\ f \in DOMAIN default_bin <=> f \in DOMAIN default_bin'
    /\ f \in DOMAIN default_bin => default_bin'[f] = default_bin[f]

\* after this step the default-bin file f holds the artifact of the target
\* of the step
WrittenFromTarget(f) ==
    /\ f \in DOMAIN default_bin'
    /\ ArtifactPath(last'.name, last'.network, last'.version, last'.debug)
           \in DOMAIN binaries'
    /\ default_bin'[f].content =
           binaries'[ArtifactPath(last'.name, last'.network, last'.version,
                                  last'.debug)]

C10_RejectedBeforeAnyIO ==
    [][(/\ last'.op = "install"
        /\ \/ is_some(last'.nightly) /\ is_some(last'.asked)
           \/ last'.name # S_sui /\ last'.debug /\ ~is_some(last'.nightly))
       => /\ ~last'.ok
          /\ UNCHANGED <<dirs, binaries, default_bin, installed_json,
                         default_json>>]_vars

\* C10 (amended): such an install fails; no artifact and no default-bin
\* file is created or changed, nothing is built, the records and the
\* default entries are unchanged; all it may do is create directories and
\* a store file that was missing, empty.
C10_RejectedWithoutInstalling ==
    [][(/\ last'.op = "install"
        /\ \/ is_some(last'.nightly) /\ is_some(last'.asked)
           \/ last'.name # S_sui /\ last'.debug /\ ~is_some(last'.nightly))
       => /\ ~last'.ok
          /\ binaries' = binaries
          /\ default_bin' = default_bin
          /\ builds' = builds
          /\ installed_json'.objects = installed_json.objects
          /\ default_json'.map = default_json.map
          /\ installed_json.exists => installed_json' = installed_json
          /\ default_json.exists => default_json' = default_json
          /\ dirs \subseteq dirs']_vars

\* --debug asked for mvr on a machine that has a binary installed and
\* promoted
C10_Witness ==
    /\ last.op = "install"
    /\ ~last.ok
    /\ last.name = S_mvr
    /\ last.debug
    /\ ~is_some(last.nightly)
    /\ Len(Records) > 0
    /\ DOMAIN default_bin # {}
    /\ DOMAIN default_json.map # {}

\* the commands of the tool
Commands == {"install", "switch", "default set", "remove", "default get"}

\* the outcomes of a command that returned without reading
\* default_version.json
NoDefaultLoad ==
    {"no binaries found to remove", "does not exist, aborting",
     "keeping the current default", "binary not found, skipping default",
     "already installed"}

\* C11: a command never changes a store file that is there and does not
\* parse; with such an installed_binaries.json, switch, default set and
\* remove fail and install records nothing; with such a
\* default_version.json, default get fails and no other command succeeds
\* unless it returned without reading that file.
C11_CorruptStoreIsFatal ==
    [][last'.op \in Commands
       => /\ (installed_json.exists /\ installed_json.form # "json")
             => /\ installed_json' = installed_json
                /\ last'.op \in {"switch", "default set", "remove"}
                      => ~last'.ok
                /\ last'.op = "install"
                      => ~last'.ok \/ last'.msg = "already installed"
          /\ (default_json.exists /\ default_json.form # "tuples")
             => /\ default_json' = default_json
                /\ last'.op = "default get" => ~last'.ok
                /\ last'.ok /\ last'.op # "default get"
                      => last'.msg \in NoDefaultLoad]_vars

\* a switch that copied the binary and then could not read the default store
C11_Witness ==
    /\ last.op = "switch"
    /\ ~last.ok
    /\ last.msg = "cannot deserialize default file"
    /\ default_json.form = "garbage"
    /\ installed_json.form = "json"

\* C12: default get, which only obtains the two store files and reads one,
\* leaves a store file that was there exactly as it was and puts in the place
\* of a missing one a file that parses as an empty store; after any command
\* both files are there.
C12_BootstrapCreatesEmptyKeepsExisting ==
    [][/\ last'.op = "default get"
          => /\ default_json' = IF default_json.exists THEN default_json
                                ELSE DefaultFile("tuples", EmptyMap)
             /\ installed_json' = IF installed_json.exists THEN installed_json
                                  ELSE InstalledFile("json", <<>>)
             /\ ~default_json.exists
                   => default_parses(default_json')
                      /\ DOMAIN default_json'.map = {}
             /\ ~installed_json.exists
                   => installed_parses(installed_json')
                      /\ from_json(installed_json'.objects) = <<>>
       /\ last'.op \in Commands
          => default_json'.exists /\ installed_json'.exists]_vars

\* default get as the first command on a machine: both files were missing
C12_Witness ==
    /\ last.op = "default get"
    /\ last.ok
    /\ steps = 1
    /\ default_json = DefaultFile("tuples", EmptyMap)
    /\ installed_json = InstalledFile("json", <<>>)

\* default get on a machine whose default store has an entry
C12_WitnessExisting ==
    /\ last.op = "default get"
    /\ last.ok
    /\ DOMAIN default_json.map # {}

\* lists of names to set the default for: two names, a name twice
NameLists == {<<S_sui, S_mvr>>, <<S_mvr, S_mvr>>}

\* the names in a list
Range(names) == {names[i] : i \in 1..Len(names)}

\* C13: a command that set the default of a name to (network, version,
\* debug) leaves that name with exactly that entry, one entry per name, and
\* every other name's entry as it was; and setting the default of any list
\* of names on the store as it is gives each of them that entry, whether it
\* had one or not, and changes no other.
C13_UpsertFrame ==
    [][/\ (\/ last'.op \in Promotes /\ last'.ok
           \/ last'.op = "install" /\ last'.msg = "set as default")
          => /\ DOMAIN default_json'.map =
                    DOMAIN default_json.map \cup {last'.name}
             /\ default_json'.map[last'.name] =
                    DefaultEntry(last'.network, last'.version, last'.debug)
             /\ \A n \in DOMAIN default_json.map \ {last'.name} :
                    default_json'.map[n] = default_json.map[n]
       /\ \A names \in NameLists :
             LET new == update_default_version_file(
                            Disk, names, "main", S_nightly, TRUE).default_json
             IN  /\ new.form = "tuples"
                 /\ DOMAIN new.map = DOMAIN default_json.map \cup Range(names)
                 /\ \A n \in Range(names) :
                       new.map[n] = DefaultEntry("main", S_nightly, TRUE)
                 /\ \A n \in DOMAIN default_json.map \ Range(names) :
                       new.map[n] = default_json.map[n]]_vars

\* a switch of one binary while the other binary has a default of its own
C13_Witness ==
    /\ last.op = "switch"
    /\ last.ok
    /\ DOMAIN default_json.map = BinaryNames
    /\ \E n \in BinaryNames :
          n # last.name /\ default_json.map[n].version # last.version

\* C14: remove of a name that has no record returns success, says that
\* there is nothing to remove, and changes no artifact, no default-bin file,
\* no record and no default entry (a store file that is there is left as it
\* is); and after a remove that went through the name has no record, so
\* that removing it again is such a remove.
C14_RemoveNothingIsNoOp ==
    [][/\ (/\ last'.op = "remove"
           /\ \A i \in 1..Len(Records) : Records[i].binary_name # last'.name)
          => /\ last'.ok
             /\ last'.msg = "no binaries found to remove"
             /\ binaries' = binaries
             /\ default_bin' = default_bin
             /\ installed_json'.objects = installed_json.objects
             /\ default_json'.map = default_json.map
             /\ installed_json.exists => installed_json' = installed_json
             /\ default_json.exists => default_json' = default_json
       /\ (last'.op = "remove" /\ last'.msg = "removed")
          => \A i \in 1..Len(from_json(installed_json'.objects)) :
                from_json(installed_json'.objects)[i].binary_name
                    # last'.name]_vars

\* nothing to remove for one binary while the other is installed and is a
\* default
C14_Witness ==
    /\ last.op = "remove"
    /\ last.ok
    /\ last.msg = "no binaries found to remove"
    /\ Len(Records) > 0
    /\ DOMAIN default_bin # {}
    /\ DOMAIN default_json.map # {}

\* the set of the records of an aggregate
RecordSet(bins) == {bins[i] : i \in 1..Len(bins)}

\* the record an install hands to the store
InstallRecord(l) ==
    BinaryVersion(l.name, l.network, l.version, l.debug,
                  SuppliedPath(l.name, l.network, l.version, l.debug))

C16_BothShapesLoad ==
    (default_json.exists /\ default_json.form \in {"tuples", "typed"})
    => /\ is_some(load_default(default_json))
       /\ load_default(default_json) =
              load_default(DefaultFile("tuples", default_json.map))
       /\ last.op = "default get" => last.ok

(***************************************************************************)
(* A process killed while it saves a store.                                *)
(***************************************************************************)
\* suiup switch <name>@<network>, killed inside update_default_version_file
\* between reading the map and the end of write_all
KilledInSave ==
    /\ steps < MaxOps
    /\ \E name \in BinaryNames, network \in Networks \cup {"standalone"} :
          \E r \in {switch_exec(initialize(Disk), name, network)} :
              /\ r.ok
              /\ \E file \in killed_in_save(initialize(Disk).default_json,
                                            r.d.default_json) :
                    Commit([r.d EXCEPT !.default_json = file])
              /\ last' = Last("killed in save", name, network, r.version,
                              r.debug, None, None, FALSE, FALSE, "killed",
                              r.src, FALSE)

\* suiup switch <name>@<network>, killed inside switch_to_binary between
\* remove_file(dst) and the end of std::fs::copy
KilledInCopy ==
    /\ steps < MaxOps
    /\ \E name \in BinaryNames, network \in Networks \cup {"standalone"} :
          \E r \in {switch_exec(initialize(Disk), name, network)} :
              /\ r.ok
              /\ \E d \in killed_in_copy(initialize(Disk),
                      BinaryVersion(r.name, r.network, r.version, r.debug,
                                    NoPath)) :
                    Commit(d)
              /\ last' = Last("killed in copy", name, network, r.version,
                              r.debug, None, None, FALSE, FALSE, "killed",
                              r.src, FALSE)

NextCrash ==
    Install \/ Switch \/ DefaultSet \/ Remove \/ KilledInSave \/ KilledInCopy

SpecCrash == Init /\ [][NextCrash]_vars

\* C17: a process killed during a save leaves the store file holding the
\* complete previous content or the complete new content, never an empty or
\* partly written file.
C17_SaveAtomic ==
    [][last'.op = "killed in save"
       => \E r \in {switch_exec(initialize(Disk), last'.name, last'.network)} :
             default_json' \in {initialize(Disk).default_json,
                                r.d.default_json}]_vars

(***************************************************************************)
(* Two invocations of suiup switch that run at the same time.              *)
(***************************************************************************)
Invocations == {1, 2}
\* installs that come before the two invocations
MaxInstalls == 2

Writer(pc, name, network, version, debug, map, saved) ==
    [pc |-> pc, name |-> name, network |-> network, version |-> version,
     debug |-> debug, map |-> map, saved |-> saved]

\* the disk when switch_to_binary reaches update_default_version_file: the
\* installed store is loaded, the binary chosen and copied; the default
\* store is as it was found
before_update_default_version_file(d, name, network) ==
    LET d0 == initialize(d)
        r == switch_exec([d0 EXCEPT !.default_json =
                              DefaultFile("tuples", EmptyMap)], name, network)
    IN  [r EXCEPT !.d = [r.d EXCEPT !.default_json = d0.default_json]]

\* an install, while no other invocation is running
InstallAlone ==
    /\ writers = NoWriters
    /\ steps < MaxInstalls
    /\ Install

\* suiup switch <name>@<network> up to the call of
\* update_default_version_file
SwitchStart ==
    \E i \in Invocations \ DOMAIN writers, name \in BinaryNames,
       network \in Networks \cup Branches \cup {"standalone"} :
        \E r \in {before_update_default_version_file(Disk, name, network)} :
            /\ r.ok
            /\ i = 1 \/ 1 \in DOMAIN writers
            /\ dirs' = r.d.dirs
            /\ binaries' = r.d.binaries
            /\ default_bin' = r.d.default_bin
            /\ installed_json' = r.d.installed_json
            /\ default_json' = r.d.default_json
            /\ builds' = r.d.builds
            /\ UNCHANGED outside
            /\ writers' = Put(writers, i,
                              Writer("load", r.name, r.network, r.version,
                                     r.debug, EmptyMap, 0))
            /\ UNCHANGED <<steps, last, update_check>>

\* default_file_path, File::open, from_reader and the upsert loop
SwitchLoad ==
    \E i \in DOMAIN writers :
        /\ writers[i].pc = "load"
        /\ \E w \in {writers[i]} :
              writers' = Put(writers, i,
                  IF default_parses(default_json)
                  THEN [w EXCEPT !.pc = "create",
                                 !.map = UpsertAll(default_json.map,
                                     <<w.name>>,
                                     DefaultEntry(w.network, w.version,
                                                  w.debug))]
                  ELSE [w EXCEPT !.pc = "failed"])
        /\ UNCHANGED <<outside, dirs, binaries, default_bin, installed_json,
                       default_json, builds, steps, last, update_check>>

\* File::create(path): the file is truncated
SwitchCreate ==
    \E i \in DOMAIN writers :
        /\ writers[i].pc = "create"
        /\ default_json' = DefaultFile("empty", EmptyMap)
        /\ writers' = Put(writers, i, [writers[i] EXCEPT !.pc = "write"])
        /\ UNCHANGED <<outside, dirs, binaries, default_bin, installed_json, builds,
                       steps, last, update_check>>

\* how many invocations have saved
SavedCount == Cardinality({j \in DOMAIN writers : writers[j].saved > 0})

\* file.write_all(text)
SwitchWrite ==
    \E i \in DOMAIN writers :
        /\ writers[i].pc = "write"
        /\ default_json' = write_all(default_json, writers[i].map)
        /\ writers' = Put(writers, i,
                          [writers[i] EXCEPT !.pc = "done",
                                             !.saved = SavedCount + 1])
        /\ UNCHANGED <<outside, dirs, binaries, default_bin, installed_json, builds,
                       steps, last, update_check>>

NextConcurrent ==
    InstallAlone \/ SwitchStart \/ SwitchLoad \/ SwitchCreate \/ SwitchWrite

SpecConcurrent == Init /\ [][NextConcurrent]_vars

BothFinished ==
    /\ DOMAIN writers = Invocations
    /\ \A i \in Invocations : writers[i].pc \in {"done", "failed"}

\* the invocation that saved last
LastSaver ==
    CHOOSE i \in DOMAIN writers :
        /\ writers[i].saved > 0
        /\ \A j \in DOMAIN writers : writers[j].saved <= writers[i].saved

\* C18: when two invocations that load, change and save default_version.json
\* have both finished, the file holds exactly the text the one that saved
\* last wrote: it parses and is no mixture of the two.
C18_LastWriterWins ==
    (BothFinished /\ SavedCount > 0)
    => default_json = DefaultFile("tuples", writers[LastSaver].map)

(***************************************************************************)
(* handlers/self_.rs, commands/mod.rs: the update check that Command::exec *)
(* spawns before it runs the command.                                      *)
(***************************************************************************)
\* invocations followed with their update check
MaxInvocations == 2

\* what GitHub answers about the latest release
Answers == {"newer", "same", "error"}

UpdateCheck(main, task, warned, at) ==
    [main |-> main, task |-> task, warned |-> warned, at |-> at]

\* a disk written through, the step counter left alone
Leave(d) ==
    /\ dirs' = d.dirs
    /\ binaries' = d.binaries
    /\ default_bin' = d.default_bin
    /\ installed_json' = d.installed_json
    /\ default_json' = d.default_json
    /\ builds' = d.builds
    /\ old_config' = d.old_config
    /\ releases' = d.releases
    /\ suibase' = d.suibase

\* (mutant) the child writes both stores anew
version_childResets(d) ==
    [initialize(d) EXCEPT !.default_json = DefaultFile("tuples", EmptyMap),
                          !.installed_json = InstalledFile("json", to_json(<<>>))]

\* Command::new(current_exe).arg("--version").output(): the child runs main,
\* which calls initialize() before clap prints the version and exits
version_child(d) == initialize(d)

\* main up to the match of Command::exec: initialize(), then
\* check_for_updates() unless --disable-update-warnings
Spawn ==
    /\ update_check.main = "idle"
    /\ steps < MaxInvocations
    /\ Leave(initialize(Disk))
    /\ \E disable_update_warnings \in BOOLEAN :
          update_check' = UpdateCheck("running",
              IF disable_update_warnings THEN "none" ELSE "spawned",
              FALSE, steps)
    /\ UNCHANGED <<steps, last, writers>>

\* the match of Command::exec: the command, awaited by itself
RunCommand ==
    /\ update_check.main = "running"
    /\ steps = update_check.at
    /\ Install \/ Switch \/ DefaultSet \/ Remove

\* main returns or calls process::exit: the runtime goes and the task with it
Exit ==
    /\ update_check.main = "running"
    /\ steps = update_check.at + 1
    /\ update_check' = [update_check EXCEPT !.main = "idle", !.task = "none"]
    /\ UNCHANGED <<outside, dirs, binaries, default_bin, installed_json, default_json,
                   builds, steps, last, writers>>

\* check_for_updates_impl up to get_latest_version
TaskVersion ==
    /\ update_check.main = "running"
    /\ update_check.task = "spawned"
    /\ Leave(version_child(Disk))
    /\ update_check' = [update_check EXCEPT !.task = "http"]
    /\ UNCHANGED <<steps, last, writers>>

\* get_latest_version().await returns; the warning goes to stderr when the
\* latest release is newer
TaskLatest ==
    /\ update_check.main = "running"
    /\ update_check.task = "http"
    /\ \E answer \in Answers :
          update_check' = [update_check EXCEPT !.task = "done",
                                               !.warned = answer = "newer"]
    /\ UNCHANGED <<outside, dirs, binaries, default_bin, installed_json, default_json,
                   builds, steps, last, writers>>

NextUpdateCheck == Spawn \/ RunCommand \/ Exit \/ TaskVersion \/ TaskLatest

\* the steps of RunCommand, told by what they change: a command always
\* returns, with Ok or Err, and only a command advances the step counter
CommandRuns ==
    /\ update_check.main = "running"
    /\ steps = update_check.at
    /\ steps' = steps + 1

\* the main future runs in block_on and never awaits the task's JoinHandle:
\* it proceeds whatever the task does, and nothing makes the task proceed
SpecUpdateCheck ==
    Init /\ [][NextUpdateCheck]_vars /\ WF_steps(CommandRuns) /\ WF_vars(Exit)

\* a step of the spawned task
TaskStep ==
    /\ update_check'.main = update_check.main
    /\ update_check'.task # update_check.task

PromoteState(d) == <<d.default_bin, d.default_json>>

\* C20: promote is idempotent while the source is not modified: a switch
\* run again right after a successful one leaves the default-bin files and
\* default_version.json as they are, and a switch run again after one that
\* was killed during the copy leaves them as the uninterrupted switch would
\* have.
C20_PromoteIdempotent ==
    [][/\ (last'.op = "switch" /\ last'.ok)
          => \E again \in {switch_exec(initialize(Disk'), last'.name,
                                       last'.network)} :
                /\ again.ok
                /\ PromoteState(again.d) = PromoteState(Disk')
       /\ last'.op = "killed in copy"
          => \E whole \in {switch_exec(initialize(Disk), last'.name,
                                       last'.network)},
                again \in {switch_exec(initialize(Disk'), last'.name,
                                       last'.network)} :
                /\ again.ok
                /\ PromoteState(again.d) = PromoteState(whole.d)]_vars

\* a switch was killed leaving part of the copy where another version was
\* the default
C20_Witness ==
    /\ last.op = "killed in copy"
    /\ last.name \in DOMAIN default_bin
    /\ default_bin[last.name].mode = "0o644"
    /\ last.name \in DOMAIN default_json.map
    /\ default_json.map[last.name].version # last.version

\* a switch has succeeded
C20_WitnessSwitched ==
    /\ last.op = "switch"
    /\ last.ok
    /\ last.name \in DOMAIN default_bin

(***************************************************************************)
(* default get after files behind the default entries have gone.           *)
(***************************************************************************)
\* the user deletes a default-bin file, or installed_binaries.json
ExternalDeleteDefault ==
    /\ steps < MaxOps
    /\ \/ \E f \in DOMAIN default_bin :
             /\ default_bin' = Del(default_bin, f)
             /\ UNCHANGED installed_json
       \/ /\ Records # <<>>
          /\ installed_json' = NoInstalledFile
          /\ UNCHANGED default_bin
    /\ steps' = steps + 1
    /\ last' = Last("external delete", S_empty, "", S_empty, FALSE, None, None,
                    FALSE, TRUE, "", NoPath, FALSE)
    /\ UNCHANGED <<outside, dirs, binaries, default_json, builds, update_check,
                   writers>>

NextGet == Install \/ Switch \/ DefaultGet \/ ExternalDelete
               \/ ExternalDeleteDefault

SpecGet == Init /\ [][NextGet]_vars

\* an entry of the default store with nothing behind it: no record of its
\* key, or no default-bin file of its name
Unbacked(name) ==
    \/ ~HasRecord(Records, name, default_json.map[name].network,
                  default_json.map[name].version, default_json.map[name].debug)
    \/ name \notin DOMAIN default_bin

\* C21: default get on a default store the tool wrote succeeds, its table
\* has one row per entry with the entry's name, network, version and debug
\* flag, whether or not a record and a default-bin file are behind the
\* entry, and it leaves the default store, the records and the default-bin
\* directory as they are.
C21_DefaultGetReportsIntent ==
    [][(last'.op = "default get" /\ default_json.form = "tuples")
       => \E r \in {get_exec(initialize(Disk))} :
             /\ last'.ok
             /\ r.ok
             /\ Len(r.table) = Cardinality(DOMAIN default_json.map)
             /\ \A k \in DOMAIN default_json.map :
                   \E i \in 1..Len(r.table) :
                       /\ r.table[i].binary_name = k
                       /\ r.table[i].network_release = default_json.map[k].network
                       /\ r.table[i].version = default_json.map[k].version
                       /\ r.table[i].debug = default_json.map[k].debug
             /\ default_json' = default_json
             /\ default_bin' = default_bin
             /\ from_json(installed_json'.objects) = Records]_vars

\* default get has succeeded on a store with an entry that has no
\* default-bin file
C21_Witness ==
    /\ last.op = "default get"
    /\ last.ok
    /\ \E k \in DOMAIN default_json.map : k \notin DOMAIN default_bin

\* default get has succeeded on a store with an entry that has no record
C21_WitnessNoRecord ==
    /\ last.op = "default get"
    /\ last.ok
    /\ \E k \in DOMAIN default_json.map :
          ~HasRecord(Records, k, default_json.map[k].network,
                     default_json.map[k].version, default_json.map[k].debug)

(***************************************************************************)
(* registry.rs: names the registry does not know.                          *)
(***************************************************************************)
S_foo == <<102, 111, 111>>
UnknownNames == {S_foo}

\* BinaryName::new: Ok for a name the registry contains
BinaryName_new(name) == IF name \in BinaryNames THEN Some(name) ELSE None

\* parse_binary_spec on <name>@<network>: two parts, neither empty
parse_binary_spec(name, network) ==
    IF name = S_empty \/ network = "" THEN None ELSE Some(<<name, network>>)

\* install, remove or default set given a name: BinaryName::new fails while
\* the argument is parsed, after main has called initialize()
ParseRejects ==
    /\ steps < MaxOps
    /\ \E op \in {"install", "remove", "default set"}, name \in UnknownNames :
          /\ ~is_some(BinaryName_new(name))
          /\ Commit(initialize(Disk))
          /\ last' = Last(op, name, "", S_empty, FALSE, None, None, FALSE,
                          FALSE, "unknown binary", NoPath, FALSE)

\* suiup switch <name>@<network> with such a name: parse_binary_spec, then
\* switch::Command::exec as for any name
SwitchUnknown ==
    /\ steps < MaxOps
    /\ \E name \in UnknownNames, network \in Networks :
          /\ is_some(parse_binary_spec(name, network))
          /\ \E r \in {switch_exec(initialize(Disk), name, network)} :
                /\ Commit(r.d)
                /\ last' = Last("switch", name, network, r.version, r.debug,
                                None, None, FALSE, r.ok, r.msg, r.src, FALSE)

NextNames == Install \/ Switch \/ ExternalWrite \/ ParseRejects
                 \/ SwitchUnknown

SpecNames == Init /\ [][NextNames]_vars

\* C22: a command given a name the registry does not know is rejected as an
\* unknown binary when its argument is parsed, whatever is in the stores:
\* install, remove, default set and switch alike.
C22_UnknownNameRejectedAtParse ==
    (last.op \in Commands /\ last.name \in UnknownNames)
    => /\ ~last.ok
       /\ last.msg = "unknown binary"

(***************************************************************************)
(* commands/switch.rs: one switch followed step by step.                   *)
(***************************************************************************)
\* the BinaryVersion an invocation has resolved
Resolved(w) == BinaryVersion(w.name, w.network, w.version, w.debug, NoPath)

\* the steps of switch::Command::exec and switch_to_binary, in program order
PromoteOrder ==
    {<<"resolve", "remove">>, <<"remove", "copy">>, <<"copy", "permissions">>,
     <<"permissions", "update">>, <<"update", "done">>}
    \cup {<<pc, "failed">> :
             pc \in {"resolve", "remove", "copy", "permissions", "update"}}

Step(d, pc) ==
    /\ Leave(d)
    /\ writers' = Put(writers, 1, [writers[1] EXCEPT !.pc = pc])
    /\ UNCHANGED <<steps, last, update_check>>

\* a file or a store damaged by hand, while no invocation is running
ExternalAlone ==
    /\ writers = NoWriters
    /\ ExternalDelete \/ ExternalWrite

\* main: initialize(); exec: parse_binary_spec
PromoteStart ==
    /\ writers = NoWriters
    /\ steps < MaxOps
    /\ \E name \in BinaryNames, network \in Networks \cup Branches \cup {"standalone"} :
          /\ is_some(parse_binary_spec(name, network))
          /\ writers' = Put(writers, 1, Writer("resolve", name, network,
                                               S_empty, FALSE, EmptyMap, 0))
    /\ Leave(initialize(Disk))
    /\ UNCHANGED <<steps, last, update_check>>

\* InstalledBinaries::new()?; find_matching_binary(..)?
PromoteResolve ==
    /\ 1 \in DOMAIN writers
    /\ writers[1].pc = "resolve"
    /\ \E d1 \in {InstalledBinaries_new(Disk)} :
          \E matching \in {IF InstalledBinaries_loaded(d1)
                           THEN matching_binaries(InstalledBinaries_binaries(d1),
                                                  writers[1].name,
                                                  writers[1].network)
                           ELSE <<>>} :
              /\ Leave(d1)
              /\ writers' = Put(writers, 1,
                    IF matching = <<>>
                    THEN [writers[1] EXCEPT !.pc = "failed"]
                    ELSE [writers[1] EXCEPT
                            !.pc = "remove",
                            !.version =
                                first_of_greatest_version(matching).version,
                            !.debug =
                                first_of_greatest_version(matching).debug])
    /\ UNCHANGED <<steps, last, update_check>>

\* if dst.exists() { remove_file(&dst)? }
PromoteRemove ==
    /\ 1 \in DOMAIN writers
    /\ writers[1].pc = "remove"
    /\ Step([Disk EXCEPT !.default_bin = Del(@, switch_dst(Resolved(writers[1])))],
            "copy")

\* std::fs::copy(&src, &dst)?: an error when src is not there
PromoteCopy ==
    /\ 1 \in DOMAIN writers
    /\ writers[1].pc = "copy"
    /\ \E b \in {Resolved(writers[1])} :
          IF Exists(Disk, switch_src(b))
          THEN Step(fs_copy(Disk, switch_src(b), switch_dst(b)), "permissions")
          ELSE Step(Disk, "failed")

\* metadata, set_mode(0o755), set_permissions
PromotePermissions ==
    /\ 1 \in DOMAIN writers
    /\ writers[1].pc = "permissions"
    /\ Step(set_permissions(Disk, switch_dst(Resolved(writers[1]))), "update")

\* update_default_version_file(..)?
PromoteUpdate ==
    /\ 1 \in DOMAIN writers
    /\ writers[1].pc = "update"
    /\ \E w \in {writers[1]} :
          IF default_loaded(Disk)
          THEN Step(update_default_version_file(Disk, <<w.name>>, w.network,
                                                w.version, w.debug), "done")
          ELSE Step(default_file_path(Disk), "failed")

\* exec returns Ok or Err and the process ends
PromoteReturn ==
    /\ 1 \in DOMAIN writers
    /\ writers[1].pc \in {"done", "failed"}
    /\ writers' = NoWriters
    /\ steps' = steps + 1
    /\ \E w \in {writers[1]} :
          last' = Last("switch", w.name, w.network, w.version, w.debug, None,
                       None, FALSE, w.pc = "done", w.pc, NoPath, FALSE)
    /\ UNCHANGED <<outside, dirs, binaries, default_bin, installed_json, default_json,
                   builds, update_check>>

PromoteStep ==
    PromoteResolve \/ PromoteRemove \/ PromoteCopy \/ PromotePermissions
        \/ PromoteUpdate

NextPromote ==
    InstallAlone \/ ExternalAlone \/ PromoteStart \/ PromoteStep
        \/ PromoteReturn

\* the steps run one after the other in one thread and each of them returns
SpecPromote == Init /\ [][NextPromote]_vars /\ WF_writers(PromoteStep)

InFlight == 1 \in DOMAIN writers

C23_WitnessFailed ==
    /\ InFlight
    /\ writers[1].pc = "failed"
    /\ writers[1].version # S_empty
    /\ writers[1].name \in DOMAIN default_json.map
    /\ switch_dst(Resolved(writers[1])) \notin DOMAIN default_bin

(***************************************************************************)
(* The four commands alone: nothing else touches the files.                *)
(***************************************************************************)
NextCommands == Install \/ Switch \/ DefaultSet \/ Remove

SpecCommands == Init /\ [][NextCommands]_vars

\* the entry of a name has a record of its key and a default-bin file, under
\* its display name, holding that record's artifact
Backed(name) ==
    LET e == default_json.map[name]
    IN  /\ HasRecord(Records, name, e.network, e.version, e.debug)
        /\ DisplayName(name, e.debug) \in DOMAIN default_bin
        /\ ArtifactPath(name, e.network, e.version, e.debug) \in DOMAIN binaries
        /\ default_bin[DisplayName(name, e.debug)].content =
               binaries[ArtifactPath(name, e.network, e.version, e.debug)]

\* C24: after any complete install, default set, switch or remove, every
\* entry of the default store has an installed record of its key and a
\* default-bin file of its display name that holds the record's artifact.
C24_DefaultEntriesBacked ==
    \A name \in DOMAIN default_json.map : Backed(name)

\* C25: every record in the store carries as path the location of its own
\* artifact, <network>/[bin/]<name>[-debug]-<version>; so records of
\* different keys have different paths and a debug record does not point at
\* the non-debug artifact.
C25_RecordPathIsOwnArtifact ==
    /\ \A i \in 1..Len(Records) :
          Records[i].path = ArtifactPath(Records[i].binary_name,
                                         Records[i].network_release,
                                         Records[i].version, Records[i].debug)
    /\ \A i, j \in 1..Len(Records) :
          Records[i].path = Records[j].path => SameKey(Records[i], Records[j])

\* the records of a name
RecordsOf(bins, name) == SelectSeq(bins, LAMBDA b : b.binary_name = name)

\* C26: remove of a name is all or nothing: afterwards either every artifact
\* its records name is deleted and neither store has an entry of the name,
\* or no artifact is deleted and the entries of both stores are as before.
C26_RemoveAllOrNothing ==
    [][last'.op = "remove"
       => \/ /\ binaries' = binaries
             /\ from_json(installed_json'.objects) = Records
             /\ default_json'.map = default_json.map
          \/ /\ \A i \in 1..Len(Records) :
                   Records[i].binary_name = last'.name
                   => Records[i].path \notin DOMAIN binaries'
             /\ RecordsOf(from_json(installed_json'.objects), last'.name) = <<>>
             /\ last'.name \notin DOMAIN default_json'.map]_vars

\* the messages of the not-found errors of switch and default set
NotFound ==
    {"no installed binary found", "no binaries installed for network",
     "binary not found in installed binaries", "no version found",
     "binary version not found"}

\* some record has the key asked for (any version when none was settled)
KeyInstalled(bins, l) ==
    \E i \in 1..Len(bins) :
        /\ bins[i].binary_name = l.name
        /\ bins[i].network_release = l.network
        /\ l.version # S_empty => bins[i].version = l.version
        /\ l.op = "default set" => bins[i].debug = l.debug

\* C27: a switch or default set whose key (name, network, version, debug)
\* no record has fails with a not-found error and leaves the default-bin
\* directory and both stores as they are; so does default set --debug when
\* only the non-debug record is installed.
C27_UninstalledKeyNotFound ==
    [][(last'.op \in Promotes /\ ~KeyInstalled(Records, last'))
       => /\ ~last'.ok
          /\ last'.msg \in NotFound
          /\ default_bin' = default_bin
          /\ from_json(installed_json'.objects) = Records
          /\ default_json'.map = default_json.map]_vars

\* promote of an installed target b by switch, by default set and by the
\* install-time path with -y
BySwitch(d, b) == switch_to_binary(d, b)
BySet(d, b) ==
    set_exec(d, b.binary_name, b.network_release,
             IF b.version = S_nightly THEN None ELSE Some(b.version), b.debug,
             IF b.version = S_nightly THEN Some(b.network_release) ELSE None)
ByInstall(d, b) ==
    update_after_install(d, <<b.binary_name>>, b.network_release, b.version,
                         b.debug, TRUE, "")

\* C28: for every installed target whose artifact is on disk, switch,
\* default set and the install-time promotion all succeed and leave the
\* same default-bin files and the same default store.
C28_PromotePathsAgree ==
    \A i \in 1..Len(Records) :
        Exists(Disk, ArtifactPath(Records[i].binary_name,
                                  Records[i].network_release,
                                  Records[i].version, Records[i].debug))
        => \E sw \in {BySwitch(initialize(Disk), Records[i])},
              st \in {BySet(initialize(Disk), Records[i])},
              in \in {ByInstall(initialize(Disk), Records[i])} :
              /\ sw.ok /\ st.ok /\ in.ok
              /\ PromoteState(sw.d) = PromoteState(st.d)
              /\ PromoteState(sw.d) = PromoteState(in.d)

\* C29: an install that reached the default prompt and was answered n, no
\* or nothing has its record in the store and leaves default_version.json
\* and the default-bin directory as they were.
C29_DeclinedPromptKeepsDefault ==
    [][(/\ last'.op = "install"
        /\ ~last'.yes
        /\ last'.ok
        /\ last'.msg \notin {"already installed",
                             "binary not found, skipping default"})
       => /\ HasRecord(from_json(installed_json'.objects), last'.name,
                       last'.network, last'.version, last'.debug)
          /\ default_json'.map = default_json.map
          /\ default_bin' = default_bin
          /\ \A input \in Declines :
                update_after_install(Disk', <<last'.name>>, last'.network,
                                     last'.version, last'.debug, FALSE, input)
                = Result(Disk', TRUE, "keeping the current default")]_vars

\* a second version was installed and the prompt declined while another
\* version is the default
C29_Witness ==
    /\ last.op = "install"
    /\ ~last.yes
    /\ last.msg = "keeping the current default"
    /\ last.name \in DOMAIN default_json.map
    /\ default_json.map[last.name].version # last.version
    /\ last.name \in DOMAIN default_bin

(***************************************************************************)
(* handlers/install.rs: an install killed between extract_component and    *)
(* save_to_file, and the same install run again.                           *)
(***************************************************************************)
\* the outcomes after which the same install is run again
Retried == {"killed after extract", "reinstall"}

\* the installs before the one that is killed
InstallBefore ==
    /\ last.op \notin Retried
    /\ Install

\* suiup install sui@<network>-<version> [--debug], killed after
\* extract_component wrote the artifact and before the record is saved
KilledAfterExtract ==
    /\ steps < MaxOps
    /\ last.op \notin Retried
    /\ \E network \in Networks, version \in VersionArgs, debug \in BOOLEAN :
          \E d0 \in {initialize(Disk)},
             v \in {ensure_version_prefix(version)},
             binary_name \in {IF debug THEN FmtDebug(S_sui) ELSE S_sui} :
              /\ is_some(fetch_release(Some(version), v))
              /\ ~check_if_binaries_exist(d0, binary_name, network, v)
              /\ Commit(extract_component(
                     [d0 EXCEPT !.dirs = @ \cup {"default_bin", "binaries"}],
                     binary_name, network, v))
              /\ last' = Last("killed after extract", S_sui, network, v, debug,
                              Some(version), None, TRUE, FALSE, "killed",
                              NoPath, FALSE)

\* the same install, with -y, run again (and again)
Reinstall ==
    /\ last.op \in Retried
    /\ \E r \in {install_component(initialize(Disk), last.name, last.network,
                                   last.asked, None, last.debug, TRUE, "y",
                                   last.version)} :
          /\ Leave(r.d)
          /\ last' = [last EXCEPT !.op = "reinstall", !.ok = r.ok,
                                  !.msg = r.msg]
    /\ UNCHANGED <<steps, update_check, writers>>

NextRetry == InstallBefore \/ KilledAfterExtract \/ Reinstall

\* the user runs the install again for as long as it changes anything
SpecRetry == Init /\ [][NextRetry]_vars /\ WF_vars(Reinstall)

\* C30: after an install was killed with the artifact extracted and no
\* record saved, running the same install again leads to the record being
\* in the store.
C30_ReinstallRecords ==
    (last.op = "killed after extract")
    ~> HasRecord(Records, last.name, last.network, last.version, last.debug)

(***************************************************************************)
(* commands/switch.rs: two switches of the same binary that run at the     *)
(* same time, each followed through switch_to_binary step by step.         *)
(***************************************************************************)
\* one step of invocation i
RaceStep(i, d, pc) ==
    /\ Leave(d)
    /\ writers' = Put(writers, i, [writers[i] EXCEPT !.pc = pc])
    /\ UNCHANGED <<steps, last, update_check>>

\* suiup switch <name>@<network>: initialize, the installed store loaded and
\* the binary found; the second invocation names the binary of the first
\* and resolves to another target
RaceStart ==
    \E i \in Invocations \ DOMAIN writers, name \in BinaryNames,
       network \in Networks \cup Branches \cup {"standalone"} :
        \E d1 \in {InstalledBinaries_new(initialize(Disk))} :
            /\ i = 1 \/ 1 \in DOMAIN writers
            /\ is_some(parse_binary_spec(name, network))
            /\ InstalledBinaries_loaded(d1)
            /\ \E matching \in {matching_binaries(
                                   InstalledBinaries_binaries(d1), name,
                                   network)} :
                  /\ matching # <<>>
                  /\ \E b \in {first_of_greatest_version(matching)} :
                        /\ i = 2 => /\ name = writers[1].name
                                    /\ b.debug = writers[1].debug
                                    /\ <<network, b.version>> #
                                         <<writers[1].network,
                                           writers[1].version>>
                        /\ writers' = Put(writers, i,
                               Writer("remove", name, network, b.version,
                                      b.debug, EmptyMap, 0))
            /\ Leave(d1)
            /\ UNCHANGED <<steps, last, update_check>>

\* if dst.exists() { std::fs::remove_file(&dst)? }
RaceRemove ==
    \E i \in DOMAIN writers :
        /\ writers[i].pc = "remove"
        /\ RaceStep(i, [Disk EXCEPT !.default_bin =
                            Del(@, switch_dst(Resolved(writers[i])))], "copy")

\* std::fs::copy(&src, &dst)?
RaceCopy ==
    \E i \in DOMAIN writers :
        /\ writers[i].pc = "copy"
        /\ \E b \in {Resolved(writers[i])} :
              IF Exists(Disk, switch_src(b))
              THEN RaceStep(i, fs_copy(Disk, switch_src(b), switch_dst(b)),
                            "permissions")
              ELSE RaceStep(i, Disk, "failed")

\* metadata, set_mode(0o755), set_permissions: an error when another
\* invocation has just removed the file
RacePermissions ==
    \E i \in DOMAIN writers :
        /\ writers[i].pc = "permissions"
        /\ \E dst \in {switch_dst(Resolved(writers[i]))} :
              IF dst \in DOMAIN default_bin
              THEN RaceStep(i, set_permissions(Disk, dst), "load")
              ELSE RaceStep(i, Disk, "failed")

NextRace ==
    InstallAlone \/ RaceStart \/ RaceRemove \/ RaceCopy \/ RacePermissions
        \/ SwitchLoad \/ SwitchCreate \/ SwitchWrite

SpecRace == Init /\ [][NextRace]_vars

\* the default-bin file and the store entry both describe the target of
\* invocation i
DescribesTarget(i) ==
    \E b \in {Resolved(writers[i])} :
        /\ switch_dst(b) \in DOMAIN default_bin
        /\ default_bin[switch_dst(b)].content = binaries[switch_src(b)]
        /\ b.binary_name \in DOMAIN default_json.map
        /\ default_json.map[b.binary_name] =
               DefaultEntry(b.network_release, b.version, b.debug)

\* both invocations returned Ok and the store is a text that parses
BothSwitched ==
    /\ DOMAIN writers = Invocations
    /\ \A i \in Invocations : writers[i].pc = "done"
    /\ default_parses(default_json)

\* C31: when two switches of one binary to different targets A and B have
\* both finished, the default-bin file and the entry of the default store
\* describe the same target: both A or both B.
C31_FileAndEntryAgree ==
    BothSwitched => \E i \in Invocations : DescribesTarget(i)

(***************************************************************************)
(* paths.rs: the stores of an older suiup, in the old configuration        *)
(* directory, and their migration.                                         *)
(***************************************************************************)
\* what an older suiup left in <config>/suiup: a default store with an
\* entry, a store of installed binaries with a record, or both
OldDefaults ==
    {NoDefaultFile,
     DefaultFile("tuples",
         Put(EmptyMap, S_sui,
             DefaultEntry("testnet", ensure_version_prefix(S_1_9_0), FALSE)))}

OldInstalled ==
    {NoInstalledFile,
     InstalledFile("json",
         to_json(<<BinaryVersion(S_sui, "testnet",
                                 ensure_version_prefix(S_1_9_0), FALSE,
                                 ArtifactPath(S_sui, "testnet",
                                     ensure_version_prefix(S_1_9_0),
                                     FALSE))>>))}

\* the machine had an older suiup before this one ran for the first time
OlderSuiupWrote ==
    /\ steps = 0
    /\ dirs = {}
    /\ old_config = NoOldConfig
    /\ \E dj \in OldDefaults, ij \in OldInstalled :
          /\ dj.exists \/ ij.exists
          /\ old_config' = [exists |-> TRUE, default_json |-> dj,
                            installed_json |-> ij, migrated_files |-> {}]
    /\ last' = [last EXCEPT !.op = "older suiup"]
    /\ UNCHANGED <<dirs, binaries, default_bin, installed_json, default_json,
                   builds, releases, suibase, steps, update_check, writers>>

\* what migrate_config_files leaves when the process is killed in it: the
\* new directory created, and the first file copied or not
killed_in_migrate(d) ==
    LET d1 == [d EXCEPT !.dirs = @ \cup {"config"}]
    IN  {d1, copy_default_version(d1)}

\* any command, killed inside migrate_config_files before the second copy
KilledInMigrate ==
    /\ steps < MaxOps
    /\ migrate_config_files(Disk) # Disk
    /\ \E d \in killed_in_migrate(Disk) : Commit(d)
    /\ last' = Last("killed in migrate", S_empty, "", S_empty, FALSE, None,
                    None, FALSE, FALSE, "killed", NoPath, FALSE)

\* a caller of the library runs cleanup_old_config_files()
CleanupOldConfig ==
    /\ steps < MaxOps
    /\ Commit(cleanup_old_config_files(Disk))
    /\ last' = Last("cleanup old config", S_empty, "", S_empty, FALSE, None,
                    None, FALSE, TRUE, "", NoPath, FALSE)

NextMigrate ==
    OlderSuiupWrote \/ Install \/ DefaultGet \/ KilledInMigrate
        \/ CleanupOldConfig

SpecMigrate == Init /\ [][NextMigrate]_vars

\* the store files of the old directory
OldFiles(d) == <<d.old_config.default_json, d.old_config.installed_json>>

C33_OldStoresMigrated ==
    \E d \in {initialize(Disk)} :
        /\ (has_content(old_config.default_json) /\ ~default_json.exists)
              => d.default_json = old_config.default_json
        /\ (has_content(old_config.installed_json) /\ ~installed_json.exists)
              => d.installed_json = old_config.installed_json

(***************************************************************************)
(* handlers/cleanup.rs, component/clean.rs: the cache of release archives. *)
(***************************************************************************)
\* seconds in a day
Day == 60 * 60 * 24

\* the archives a download may have left in release_archive_dir(), and a
\* directory someone made there
ArchiveNames == {"sui-testnet-v1.9.0.tgz", "sui-testnet-v1.10.0.tgz"}
DirNames == {"tmp"}

\* seconds between the modification time of an entry and now: 30 days to
\* the second, one second more, and a modification time ahead of the clock
Ages == {30 * Day, 30 * Day + 1, 0 - 1}

\* --days: the default and the least
DaysArgs == {30, 0}

CacheEntry(kind, age) == [kind |-> kind, age |-> age]

\* the orders in which fs::read_dir may give the entries
ReadDirOrders(rel) ==
    {order \in [1..Cardinality(DOMAIN rel) -> DOMAIN rel] :
        \A i, j \in DOMAIN order : i # j => order[i] # order[j]}

\* (mutant) the loop that removes whatever it meets, dry run or not
remove_oldIgnoresDryRun(rel, order, i, cutoff, dry_run) ==
    [releases |-> [e \in {x \in DOMAIN rel : rel[x].kind # "file"} |-> rel[e]],
     ok |-> TRUE]

\* the loop of handle_cleanup over read_dir, from entry i on: what is not
\* a file is skipped; duration_since fails on a modification time ahead of
\* the clock and `?` returns from the handler; a file older than the cutoff
\* is removed unless this is a dry run
RECURSIVE remove_old(_, _, _, _, _)
remove_old(rel, order, i, cutoff, dry_run) ==
    IF i > Len(order) THEN [releases |-> rel, ok |-> TRUE]
    ELSE IF rel[order[i]].kind # "file"
    THEN remove_old(rel, order, i + 1, cutoff, dry_run)
    ELSE IF rel[order[i]].age < 0 THEN [releases |-> rel, ok |-> FALSE]
    ELSE IF rel[order[i]].age > cutoff /\ ~dry_run
    THEN remove_old(Del(rel, order[i]), order, i + 1, cutoff, dry_run)
    ELSE remove_old(rel, order, i + 1, cutoff, dry_run)

\* handle_cleanup(all, days, dry_run)
handle_cleanup(d, all, days, dry_run, order) ==
    IF "releases" \notin d.dirs THEN Result(d, TRUE, "nothing to clean up")
    ELSE IF all
    THEN IF dry_run THEN Result(d, TRUE, "would remove all")
         ELSE Result([d EXCEPT !.releases = EmptyMap], TRUE, "cache cleared")
    ELSE LET r == remove_old(d.releases, order, 1, Day * days, dry_run)
         IN  Result([d EXCEPT !.releases = r.releases], r.ok,
                    IF ~r.ok THEN "second time provided was later than self"
                    ELSE IF dry_run THEN "would remove"
                    ELSE "cleanup complete")

\* clean_component(yes): nothing when the cache holds no bytes (archives
\* are not empty files); else, unless the answer is not y, the directory is
\* removed with all in it and created again
clean_component(d, yes, input) ==
    IF "releases" \notin d.dirs THEN Result(d, TRUE, "nothing to clean")
    ELSE IF \A e \in DOMAIN d.releases : d.releases[e].kind # "file"
    THEN Result(d, TRUE, "cache is already empty")
    ELSE IF ~yes /\ input # "y" THEN Result(d, TRUE, "aborted by user")
    ELSE Result([d EXCEPT !.releases = EmptyMap], TRUE, "cleaned cache")

\* a download left an archive in the cache some time ago, or someone made a
\* directory there
ArchiveCached ==
    /\ "releases" \in dirs
    /\ \/ \E e \in ArchiveNames \ DOMAIN releases, age \in Ages :
             releases' = Put(releases, e, CacheEntry("file", age))
       \/ \E e \in DirNames \ DOMAIN releases :
             releases' = Put(releases, e, CacheEntry("dir", 30 * Day + 1))
    /\ UNCHANGED <<dirs, binaries, default_bin, installed_json, default_json,
                   builds, old_config, suibase, steps, last, update_check,
                   writers>>

\* suiup cleanup [--all | --days <days>] [--dry-run]
Cleanup ==
    /\ steps < MaxOps
    /\ \E all \in BOOLEAN, days \in DaysArgs, dry_run \in BOOLEAN,
          order \in ReadDirOrders(releases) :
          /\ all => days = 30
          /\ \E r \in {handle_cleanup(initialize(Disk), all, days, dry_run,
                                      order)} :
                /\ Commit(r.d)
                /\ last' = [op |-> "cleanup", all |-> all, days |-> days,
                            dry_run |-> dry_run, ok |-> r.ok, msg |-> r.msg]

\* suiup clean [-y]
Clean ==
    /\ steps < MaxOps
    /\ \E yes \in BOOLEAN, input \in {"y", "n"} :
          \E r \in {clean_component(initialize(Disk), yes, input)} :
              /\ Commit(r.d)
              /\ last' = [op |-> "clean", yes |-> yes, input |-> input,
                          ok |-> r.ok, msg |-> r.msg]

NextCleanup == InstallAlone \/ ArchiveCached \/ Cleanup \/ Clean

SpecCleanup == Init /\ [][NextCleanup]_vars

\* the files of the cache that are older than days days
OlderThan(rel, days) ==
    {e \in DOMAIN rel : rel[e].kind = "file" /\ rel[e].age > Day * days}

\* C34: cleanup with --dry-run leaves the cache as it is, with --all or
\* without and for every --days; and cleanup in any mode, like clean,
\* leaves the artifacts, the default-bin files, the records and the default
\* entries as they are.
C34_DryRunRemovesNothing ==
    [][(last'.op \in {"cleanup", "clean"} /\ steps' # steps)
       => /\ (last'.op = "cleanup" /\ last'.dry_run) => releases' = releases
          /\ binaries' = binaries
          /\ default_bin' = default_bin
          /\ installed_json'.objects = installed_json.objects
          /\ default_json'.map = default_json.map
          /\ installed_json.exists => installed_json' = installed_json
          /\ default_json.exists => default_json' = default_json]_vars

\* a dry run has left alone a cache with a file older than the days given,
\* beside an installed binary
C34_Witness ==
    /\ last.op = "cleanup"
    /\ last.dry_run
    /\ ~last.all
    /\ last.ok
    /\ OlderThan(releases, last.days) # {}
    /\ DOMAIN binaries # {}

\* C35: cleanup without --dry-run: with --all the cache directory is there
\* and empty afterwards; without --all the files directly in it that are
\* older than --days days are gone and every other entry is kept.
C35_RemovesExactlyTheOld ==
    [][(last'.op = "cleanup" /\ steps' # steps /\ ~last'.dry_run)
       => /\ "releases" \in dirs'
          /\ last'.all => releases' = EmptyMap
          /\ ~last'.all
                => releases' = [e \in DOMAIN releases
                                        \ OlderThan(releases, last'.days)
                                  |-> releases[e]]]_vars

(***************************************************************************)
(* handlers/suibase.rs: suibase install, update and uninstall, with what   *)
(* SystemRunner executes and what it only prints.                          *)
(***************************************************************************)
\* the scripts of the suibase repository
Scripts == {"install", "update", "uninstall"}

\* one call of the Runner: what it executed (exec) or only printed, and
\* whether the call returned Ok
Call(exec, program, args, ok) ==
    [exec |-> exec, program |-> program, args |-> args, ok |-> ok]

\* how a handler stands: the suibase record with the calls so far, and
\* whether it goes on, has returned Ok or has returned Err
Running(s, status) == [s |-> s, status |-> status]

\* what the machine answers: which programs are there, which runs succeed,
\* and what the user types at the prompt
Machines ==
    [git : BOOLEAN, bash : BOOLEAN, repo : BOOLEAN, script : BOOLEAN,
     input : {"y", "Yes", "n", ""}]

\* input.trim().to_lowercase() of the answers above
normalized(input) ==
    CASE input = "Yes" -> "yes"
      [] OTHER -> input

\* SystemRunner::ensure_available: printed in a dry run, else
\* `<command> --version` is executed
ensure_available(r, command, dry_run, available) ==
    IF r.status # "running" THEN r
    ELSE IF dry_run
    THEN Running([r.s EXCEPT !.log =
                      Append(@, Call(FALSE, command, "--version", TRUE))],
                 "running")
    ELSE Running([r.s EXCEPT !.log =
                      Append(@, Call(TRUE, command, "--version", available))],
                 IF available THEN "running" ELSE "err")

\* what a command that was executed with success leaves: git clone makes
\* the directory with the scripts of the repository
effect(s, program, args) ==
    IF program = "git" /\ args = "clone"
    THEN [s EXCEPT !.exists = TRUE, !.dir = Scripts]
    ELSE s

\* (mutant) a run that executes also in a dry run
runIgnoresDryRun(r, program, args, dry_run, success) ==
    IF r.status # "running" THEN r
    ELSE Running([(IF success THEN effect(r.s, program, args) ELSE r.s)
                      EXCEPT !.log =
                          Append(@, Call(TRUE, program, args, success))],
                 IF success THEN "running" ELSE "err")

\* SystemRunner::run: printed in a dry run, else the command is executed
\* and a status that is no success is an error
run(r, program, args, dry_run, success) ==
    IF r.status # "running" THEN r
    ELSE IF dry_run
    THEN Running([r.s EXCEPT !.log =
                      Append(@, Call(FALSE, program, args, TRUE))],
                 "running")
    ELSE Running([(IF success THEN effect(r.s, program, args) ELSE r.s)
                      EXCEPT !.log =
                          Append(@, Call(TRUE, program, args, success))],
                 IF success THEN "running" ELSE "err")

\* ensure_script_exists: a missing script is an error unless in a dry run
ensure_script_exists(r, script, dry_run) ==
    IF r.status # "running" THEN r
    ELSE IF script \in r.s.dir \/ dry_run THEN r
    ELSE Running(r.s, "err")

\* the handler has come to its end
returned(r) == IF r.status = "running" THEN Running(r.s, "ok") ELSE r

\* (mutant) install that clones and then pulls
install_with_runnerClonesAndPulls(s, opts, m) ==
    LET r0 == Running([s EXCEPT !.log = <<>>], "running")
        r1 == ensure_available(r0, "git", opts.dry_run, m.git)
        r2 == ensure_available(r1, "bash", opts.dry_run, m.bash)
        r3 == run(r2, "git", "clone", opts.dry_run, m.repo)
        r4 == run(r3, "git", "pull --ff-only", opts.dry_run, m.repo)
        r5 == ensure_script_exists(r4, "install", opts.dry_run)
    IN  returned(run(r5, "bash", "install", opts.dry_run, m.script))

\* install_with_runner
install_with_runner(s, opts, m) ==
    LET r0 == Running([s EXCEPT !.log = <<>>], "running")
        r1 == ensure_available(r0, "git", opts.dry_run, m.git)
        r2 == ensure_available(r1, "bash", opts.dry_run, m.bash)
        r3 == IF s.exists
              THEN run(r2, "git", "pull --ff-only", opts.dry_run, m.repo)
              ELSE run(r2, "git", "clone", opts.dry_run, m.repo)
        r4 == ensure_script_exists(r3, "install", opts.dry_run)
    IN  returned(run(r4, "bash", "install", opts.dry_run, m.script))

\* update_with_runner
update_with_runner(s, opts, m) ==
    LET r0 == Running([s EXCEPT !.log = <<>>], "running")
        r1 == ensure_available(r0, "bash", opts.dry_run, m.bash)
        r2 == ensure_script_exists(r1, "update", opts.dry_run)
    IN  returned(run(r2, "bash", "update", opts.dry_run, m.script))

\* confirm_uninstall
confirm_uninstall(input) == normalized(input) \in {"y", "yes"}

\* uninstall_with_runner
uninstall_with_runner(s, opts, m) ==
    LET r0 == Running([s EXCEPT !.log = <<>>], "running")
        r1 == ensure_available(r0, "bash", opts.dry_run, m.bash)
        r2 == IF r1.status = "running" /\ ~opts.yes /\ ~opts.dry_run
                 /\ ~confirm_uninstall(m.input)
              THEN Running(r1.s, "cancelled")
              ELSE r1
        r3 == ensure_script_exists(r2, "uninstall", opts.dry_run)
    IN  returned(run(r3, "bash", "uninstall", opts.dry_run, m.script))

\* ActionOptions
ActionOptions == [yes : BOOLEAN, dry_run : BOOLEAN]

\* suiup suibase install | update | uninstall
Suibase ==
    /\ steps < MaxOps
    /\ \E action \in Scripts, opts \in ActionOptions, m \in Machines :
          \E r \in {CASE action = "install" ->
                             install_with_runner(suibase, opts, m)
                      [] action = "update" ->
                             update_with_runner(suibase, opts, m)
                      [] OTHER -> uninstall_with_runner(suibase, opts, m)} :
              /\ Commit([initialize(Disk) EXCEPT !.suibase = r.s])
              /\ last' = [op |-> "suibase", action |-> action,
                          yes |-> opts.yes, dry_run |-> opts.dry_run,
                          input |-> m.input, ok |-> r.status # "err",
                          msg |-> r.status, existed |-> suibase.exists]

\* someone makes the suibase directory, empty, or removes it
SuibaseDirChanged ==
    /\ steps < MaxOps
    /\ suibase' = [suibase EXCEPT !.exists = ~suibase.exists, !.dir = {}]
    /\ steps' = steps + 1
    /\ last' = [last EXCEPT !.op = "suibase directory"]
    /\ UNCHANGED <<dirs, binaries, default_bin, installed_json, default_json,
                   builds, old_config, releases, update_check, writers>>

NextSuibase == Suibase \/ SuibaseDirChanged

SpecSuibase == Init /\ [][NextSuibase]_vars

\* the commands of the last invocation that were executed
Executed == SelectSeq(suibase.log, LAMBDA c : c.exec)

\* the scripts of the repository that were executed
ScriptsRun ==
    SelectSeq(Executed, LAMBDA c : c.program = "bash" /\ c.args \in Scripts)

\* C36: a suibase install, update or uninstall with --dry-run executes no
\* command, its checks and runs are only printed; and an uninstall without
\* --yes and without --dry-run runs no script unless the answer at the
\* prompt is y or yes.
C36_DryRunExecutesNothing ==
    last.op = "suibase"
    => /\ last.dry_run => (Executed = <<>> /\ suibase.log # <<>> /\ last.ok)
       /\ (/\ last.action = "uninstall"
           /\ ~last.yes
           /\ ~last.dry_run
           /\ normalized(last.input) \notin {"y", "yes"})
          => ScriptsRun = <<>>

\* a dry run of install has printed its two checks and its two runs
C36_Witness ==
    /\ last.op = "suibase"
    /\ last.action = "install"
    /\ last.dry_run
    /\ Len(suibase.log) = 4

\* an uninstall was answered with another word than yes and ran no script
C36_WitnessDeclined ==
    /\ last.op = "suibase"
    /\ last.action = "uninstall"
    /\ ~last.yes
    /\ ~last.dry_run
    /\ last.input = "n"
    /\ last.msg = "cancelled"
    /\ Len(Executed) = 1

\* the calls of a run of install, by their place in the log
IsCheck(c) == c.args = "--version"
IsClone(c) == c.program = "git" /\ c.args = "clone"
IsPull(c) == c.program = "git" /\ c.args = "pull --ff-only"
IsScript(c) == c.program = "bash" /\ c.args = "install"

\* C37: in a suibase install the checks of git and bash come before every
\* run; the repository is cloned when the suibase directory was not there
\* and pulled with --ff-only when it was, never both; and the install
\* script is run only after the clone or the pull, and then only when that
\* had succeeded.
C37_InstallOrder ==
    (last.op = "suibase" /\ last.action = "install")
    => \E log \in {suibase.log} :
          /\ \A i, j \in DOMAIN log :
                (IsCheck(log[i]) /\ ~IsCheck(log[j])) => i < j
          /\ \A i, j \in DOMAIN log :
                (IsCheck(log[i]) /\ IsCheck(log[j]) /\ log[i].program = "git"
                   /\ log[j].program = "bash") => i < j
          /\ \A i \in DOMAIN log : IsClone(log[i]) => ~last.existed
          /\ \A i \in DOMAIN log : IsPull(log[i]) => last.existed
          /\ \A i \in DOMAIN log :
                IsScript(log[i])
                => /\ i = Len(log)
                   /\ i > 1
                   /\ IsClone(log[i - 1]) \/ IsPull(log[i - 1])
                   /\ log[i - 1].ok
                   /\ log[i].exec => suibase.exists

\* an install has cloned and then run the install script
C37_Witness ==
    /\ last.op = "suibase"
    /\ last.action = "install"
    /\ ~last.dry_run
    /\ ~last.existed
    /\ Len(Executed) = 4
    /\ IsClone(Executed[3])
    /\ IsScript(Executed[4])

\* an install has pulled in a directory that was there
C37_WitnessPull ==
    /\ last.op = "suibase"
    /\ last.action = "install"
    /\ ~last.dry_run
    /\ last.existed
    /\ \E i \in DOMAIN Executed : IsPull(Executed[i])


-----------------------------------------------------------------------------
\* handlers/self_.rs: the version of the self-update check

VerMajors == {0, 10}
VerNumbers == {9, 10}
VerPrefixes == {<<>>, S_v}

\* Display of an unsigned integer: its decimal digits
RECURSIVE Digits(_)
Digits(n) == IF n < 10 THEN <<48 + n>> ELSE Digits(n \div 10) \o <<48 + (n % 10)>>

\* a tag or a package version written from three numbers
VersionText(prefix, major, minor, patch) ==
    prefix \o Digits(major) \o <<46>> \o Digits(minor) \o <<46>> \o Digits(patch)

WellFormedVersions ==
    { [text |-> VersionText(p, a, b, c), parts |-> <<a, b, c>>] :
        p \in VerPrefixes, a \in VerMajors, b \in VerNumbers, c \in VerNumbers }

\* "", "1.2", "1.2.3.4", "1.x.0", "1.0.0-rc"
MalformedVersions ==
    { [text |-> t, parts |-> <<>>] :
        t \in { <<>>,
                <<49, 46, 50>>,
                <<49, 46, 50, 46, 51, 46, 52>>,
                <<49, 46, 120, 46, 48>>,
                <<49, 46, 48, 46, 48, 45, 114, 99>> } }

VersionInputs == WellFormedVersions \cup MalformedVersions

\* str::trim_start_matches('v'): every leading v is dropped
RECURSIVE trim_start_matches_v(_)
trim_start_matches_v(s) ==
    IF s # <<>> /\ Head(s) = 118 THEN trim_start_matches_v(Tail(s)) ELSE s

\* str::parse::<usize>: an optional +, then one digit or more
parse_usize(part) ==
    LET digits == IF part # <<>> /\ Head(part) = 43 THEN Tail(part) ELSE part
    IN  IF digits # <<>> /\ \A k \in 1..Len(digits) : IsDigit(digits[k])
        THEN [ok |-> TRUE, value |-> ParseNum(digits, 0)]
        ELSE [ok |-> FALSE, value |-> 0]

\* Ver::from_str: exactly three parts between dots, each an unsigned number
Ver_from_str(s) ==
    LET parts == SplitDots(trim_start_matches_v(s), <<>>)
    IN  IF Len(parts) = 3 /\ \A i \in 1..3 : parse_usize(parts[i]).ok
        THEN [ok |-> TRUE,
              major |-> parse_usize(parts[1]).value,
              minor |-> parse_usize(parts[2]).value,
              patch |-> parse_usize(parts[3]).value]
        ELSE [ok |-> FALSE, major |-> 0, minor |-> 0, patch |-> 0]

\* the order of the text of two versions, byte by byte
Ver_ltAsText(a, b) ==
    NumSeqLess(VersionText(<<>>, a.major, a.minor, a.patch),
               VersionText(<<>>, b.major, b.minor, b.patch))

\* #[derive(PartialOrd, Ord)] on Ver: major, then minor, then patch
Ver_lt(a, b) ==
    \/ a.major < b.major
    \/ a.major = b.major /\ a.minor < b.minor
    \/ a.major = b.major /\ a.minor = b.minor /\ a.patch < b.patch

\* check_for_updates_impl: TRUE when the warning is printed; `version` is the
\* second word of the output of --version, `tag_name` the latest release's
check_for_updates_impl(version, tag_name) ==
    LET current_version == Ver_from_str(version)
        latest_version == Ver_from_str(tag_name)
    IN  /\ current_version.ok
        /\ latest_version.ok
        /\ Ver_lt(current_version, latest_version)

\* the task of check_for_updates: the child process of --version initializes
\* the directories, then the two versions are compared
CheckForUpdates ==
    /\ steps < MaxOps
    /\ \E current \in VersionInputs, latest \in VersionInputs :
          /\ Commit(version_child(Disk))
          /\ last' = [op |-> "update check", current |-> current,
                      latest |-> latest,
                      warned |-> check_for_updates_impl(current.text,
                                                        latest.text)]
    /\ steps' = steps + 1
    /\ UNCHANGED <<update_check, writers>>

NextVer == CheckForUpdates

SpecVer == Init /\ [][NextVer]_vars

\* major, minor, patch of the first below those of the second, as numbers
PartsBelow(a, b) ==
    \/ a[1] < b[1]
    \/ a[1] = b[1] /\ a[2] < b[2]
    \/ a[1] = b[1] /\ a[2] = b[2] /\ a[3] < b[3]

\* C38: the self-update check compares the running version and the latest
\* release number by number (major, minor, patch; a leading v is ignored) and
\* warns only when the running version is strictly lower: never when the two
\* are equal or the running one is newer, and never on a malformed version
C38_WarnsOnlyWhenLower ==
    last.op = "update check"
    => (last.warned
        <=> /\ last.current.parts # <<>>
            /\ last.latest.parts # <<>>
            /\ PartsBelow(last.current.parts, last.latest.parts))

\* 0.9.10 against the latest v0.10.9: lower as numbers, higher as text
C38_Witness ==
    /\ last.op = "update check"
    /\ last.current.parts = <<0, 9, 10>>
    /\ last.latest.parts = <<0, 10, 9>>
    /\ last.latest.text[1] = 118
    /\ last.warned

\* equal versions, one written with v and one without: no warning
C38_WitnessEqual ==
    /\ last.op = "update check"
    /\ last.current.parts = <<10, 9, 10>>
    /\ last.latest.parts = <<10, 9, 10>>
    /\ last.current.text # last.latest.text
    /\ ~last.warned

=============================================================================
